---- MODULE Spec2Model ----
(***************************************************************************)
(* Gold holdings tracker: the ledger of buy/sell transactions, the savings *)
(* goals and the zakat reminder records kept in the relational store, and  *)
(* the handlers that derive holdings, goal progress and zakat eligibility  *)
(* from them.                                                              *)
(*                                                                         *)
(* Units.  Weights are numeric(10,3) columns: the model counts them in     *)
(* thousandths of a gram.  Money is numeric(.,2): the model counts cents.  *)
(* Timestamps are counted in clock ticks, TicksPerDay ticks to the day, so *)
(* that Math.floor over a day has something to round.  The JavaScript      *)
(* numbers of the handlers are doubles; the model computes the same        *)
(* expressions exactly, and in doubles where the rounding of a double      *)
(* decides: total_price where the exact value is at a rounding tie, and    *)
(* the comparison of a total of weights with the nisab where the exact     *)
(* total is the nisab.                                                     *)
(***************************************************************************)
EXTENDS FiniteSets, Integers, Sequences, TLC

VARIABLES
    now,              \* the wall clock (new Date(), Date.now(), defaultNow())
    goldTransactions, \* rows of gold_transactions
    nextTxId,         \* the serial of gold_transactions.id
    goldGoals,        \* rows of gold_goals
    nextGoalId,       \* the serial of gold_goals.id
    zakatReminders,   \* rows of zakat_reminders
    nextZakatId,      \* the serial of zakat_reminders.id
    calls,            \* the handler calls in progress: their locals
    ret,              \* the handler call that returned last: arguments and value
    goldPriceCache    \* the module variable goldPriceCache: null or one entry

vars == <<now, goldTransactions, nextTxId, goldGoals, nextGoalId,
          zakatReminders, nextZakatId, calls, ret, goldPriceCache>>

----------------------------------------------------------------------------
(* Program constants *)

NISAB_GRAMS == 85

LUNAR_YEAR_DAYS == 354

MilliPerGram == 1000

\* ZAKAT_RATE = 0.025, one fortieth
ZAKAT_RATE_INVERSE == 40

\* the dashboard's own constants
ZAKAT_NISAB_GRAMS == 85

ZAKAT_REQUIRED_DAYS == 354

\* currentGoldPrice = 65.50, in cents
DashboardGoldPrice == 6550

(* Bounds of the model *)

NumUsers == 1

MaxTx == 3

MaxGoals == 2

TicksPerDay == 2

NumCalls == 2

MaxUsers == 2

TicksPerHour == 2

MaxLedgerTx == 2

----------------------------------------------------------------------------
(* Values *)

Users == 1..NumUsers

Calls == 1..NumCalls

\* the users of the specifications in which one user's records have to be told
\* from another's
AllUsers == 1..MaxUsers

Nisab == NISAB_GRAMS * MilliPerGram

Day == TicksPerDay

StartTime == LUNAR_YEAR_DAYS * Day

MaxNow == StartTime + Day

Weights == {15 * MilliPerGram, 100 * MilliPerGram}

TxDates == {0, 1, Day}

Prices == {6575}

Targets == {0, 70 * MilliPerGram, 100 * MilliPerGram}

\* prices per gram given to calculateZakatAmount: 60.00 and 65.75
ZakatPrices == {6000, 6575}

\* dates given to updateNextReminderDate: one that has passed, one to come
ReminderDates == {StartTime, MaxNow + Day}

\* transaction dates of a user who has held gold for two lunar years, or for one
LongHeldDates == {0 - StartTime, 0}

\* CACHE_DURATION_MS, one hour.  The price cache compares its timestamps only
\* with each other: the cache specifications count the clock in ticks of their
\* own, TicksPerHour to the hour
CACHE_DURATION_MS == TicksPerHour

MaxCacheNow == StartTime + 2 * CACHE_DURATION_MS

\* price_per_gram_usd of the quotes the feed gives, in cents: within 65.00..70.00
FeedPrices == {6575, 6925}

\* what a call of the external service comes to: a price, or an error
FeedOutcomes == {[ok |-> TRUE, price |-> p] : p \in FeedPrices} \cup {[ok |-> FALSE]}

\* weights and prices given to the ledger handlers where total_price is looked
\* at: 1.005 g and 10.5 g, 1.00 and 65.75 per gram
LedgerWeights == {1005, 10500}

LedgerPrices == {100, 6575}

\* weights that are not whole grams, and come to 85 g: 0.002 g, 0.002 g and
\* 84.996 g
FractionWeights == {2, 84996}

None == <<>>

Some(x) == <<x>>

Max(a, b) == IF a >= b THEN a ELSE b

Min(a, b) == IF a <= b THEN a ELSE b

RECURSIVE Perms(_)
Perms(S) ==
    IF S = {} THEN {<<>>}
    ELSE UNION {{<<x>> \o p : p \in Perms(S \ {x})} : x \in S}

----------------------------------------------------------------------------
(* JavaScript numbers.  A number is an IEEE-754 double: here m * 2^e with the
   natural number m below 2^53.  m and the products of the arithmetic do not fit
   the integers of the model checker, so natural numbers are kept as sequences
   of limbs, least significant first, without leading zeros. *)

RECURSIVE Pow2(_)
Pow2(k) == IF k = 0 THEN 1 ELSE 2 * Pow2(k - 1)

LimbBits == 15

Limb == Pow2(LimbBits)

\* the bits of a double's significand
DoubleBits == 53

RECURSIVE BigTrim(_)
BigTrim(a) ==
    IF Len(a) > 0 /\ a[Len(a)] = 0 THEN BigTrim(SubSeq(a, 1, Len(a) - 1)) ELSE a

RECURSIVE BigOfInt(_)
BigOfInt(n) == IF n = 0 THEN <<>> ELSE <<n % Limb>> \o BigOfInt(n \div Limb)

RECURSIVE IntOfBig(_)
IntOfBig(a) == IF Len(a) = 0 THEN 0 ELSE a[1] + Limb * IntOfBig(Tail(a))

RECURSIVE BigAddCarry(_, _, _)
BigAddCarry(a, b, carry) ==
    IF Len(a) = 0 /\ Len(b) = 0
    THEN IF carry = 0 THEN <<>> ELSE <<carry>>
    ELSE LET x == IF Len(a) = 0 THEN 0 ELSE a[1]
             y == IF Len(b) = 0 THEN 0 ELSE b[1]
             sum == x + y + carry
         IN <<sum % Limb>>
            \o BigAddCarry(IF Len(a) = 0 THEN a ELSE Tail(a),
                           IF Len(b) = 0 THEN b ELSE Tail(b), sum \div Limb)

BigAdd(a, b) == BigAddCarry(a, b, 0)

\* a * k for a natural number k below Limb
RECURSIVE BigMulSmallCarry(_, _, _)
BigMulSmallCarry(a, k, carry) ==
    IF Len(a) = 0
    THEN IF carry = 0 THEN <<>> ELSE <<carry>>
    ELSE LET prod == a[1] * k + carry
         IN <<prod % Limb>> \o BigMulSmallCarry(Tail(a), k, prod \div Limb)

BigMulSmall(a, k) == BigTrim(BigMulSmallCarry(a, k, 0))

RECURSIVE BigMul(_, _)
BigMul(a, b) ==
    IF Len(b) = 0 THEN <<>>
    ELSE BigTrim(BigAdd(BigMulSmall(a, b[1]), <<0>> \o BigMul(a, Tail(b))))

\* quotient and remainder of a by a positive d below Limb, from the top limb down
RECURSIVE BigDivSmallFrom(_, _, _, _)
BigDivSmallFrom(a, d, i, rem) ==
    IF i = 0 THEN [quot |-> <<>>, rem |-> rem]
    ELSE LET cur == rem * Limb + a[i]
             rest == BigDivSmallFrom(a, d, i - 1, cur % d)
         IN [quot |-> rest.quot \o <<cur \div d>>, rem |-> rest.rem]

BigDivSmall(a, d) ==
    LET r == BigDivSmallFrom(a, d, Len(a), 0)
    IN [quot |-> BigTrim(r.quot), rem |-> r.rem]

RECURSIVE IntBitLength(_)
IntBitLength(n) == IF n = 0 THEN 0 ELSE 1 + IntBitLength(n \div 2)

BigBitLength(a) ==
    IF Len(a) = 0 THEN 0 ELSE LimbBits * (Len(a) - 1) + IntBitLength(a[Len(a)])

\* a * 2^s
BigShiftLeft(a, s) ==
    [i \in 1..(s \div LimbBits) |-> 0] \o BigMulSmall(a, Pow2(s % LimbBits))

\* floor(a / 2^s), and whether bits other than zeros were dropped
BigShiftRight(a, s) ==
    LET limbs == s \div LimbBits
        low == SubSeq(a, 1, IF limbs < Len(a) THEN limbs ELSE Len(a))
        high == SubSeq(a, limbs + 1, Len(a))
        r == BigDivSmall(high, Pow2(s % LimbBits))
    IN [quot |-> r.quot,
        sticky |-> r.rem # 0 \/ \E i \in 1..Len(low) : low[i] # 0]

BigIsOdd(a) == Len(a) > 0 /\ a[1] % 2 = 1

\* a / 2^s to the nearest natural number, a tie to the even one; inexact tells
\* that a had more below its lowest bit
BigRoundShift(a, s, inexact) ==
    LET above == BigShiftRight(a, s - 1)
        quot == BigDivSmall(above.quot, 2)
        up == quot.rem = 1 /\ (above.sticky \/ inexact \/ BigIsOdd(quot.quot))
    IN IF up THEN BigAdd(quot.quot, <<1>>) ELSE quot.quot

\* the double nearest to m * 2^e (round to nearest, ties to even)
DoubleRound(m, e, inexact) ==
    LET excess == BigBitLength(m) - DoubleBits
    IN IF excess <= 0 THEN [m |-> m, e |-> e]
       ELSE [m |-> BigRoundShift(m, excess, inexact), e |-> e + excess]

\* the double a decimal literal n / d denotes, for positive n and d below Limb
DoubleOfDecimal(n, d) ==
    LET scaled == BigDivSmall(BigShiftLeft(BigOfInt(n), 5 * LimbBits), d)
    IN DoubleRound(scaled.quot, 0 - 5 * LimbBits, scaled.rem # 0)

\* x * y
DoubleTimes(x, y) == DoubleRound(BigMul(x.m, y.m), x.e + y.e, FALSE)

\* Math.round(x) for a positive x of moderate size: floor(x + 1/2)
MathRound(x) ==
    IF x.e >= 0 THEN IntOfBig(BigShiftLeft(x.m, x.e))
    ELSE (IntOfBig(BigShiftRight(x.m, 0 - x.e - 1).quot) + 1) \div 2

\* Math.round((weight_grams * price_per_gram) * 100), the operands given in
\* thousandths of a gram and in cents
RoundedCents(weight_grams, price_per_gram) ==
    MathRound(DoubleTimes(DoubleTimes(DoubleOfDecimal(weight_grams, MilliPerGram),
                                      DoubleOfDecimal(price_per_gram, 100)),
                          [m |-> <<100>>, e |-> 0]))

\* a < b, for natural numbers without leading zeros
RECURSIVE BigLessFrom(_, _, _)
BigLessFrom(a, b, i) ==
    IF i = 0 THEN FALSE
    ELSE IF a[i] # b[i] THEN a[i] < b[i]
    ELSE BigLessFrom(a, b, i - 1)

BigLess(a, b) ==
    IF Len(a) # Len(b) THEN Len(a) < Len(b) ELSE BigLessFrom(a, b, Len(a))

\* a - b, for a >= b
RECURSIVE BigSubBorrow(_, _, _)
BigSubBorrow(a, b, borrow) ==
    IF Len(a) = 0 THEN <<>>
    ELSE LET y == IF Len(b) = 0 THEN 0 ELSE b[1]
             d == a[1] - y - borrow
         IN <<IF d < 0 THEN d + Limb ELSE d>>
            \o BigSubBorrow(Tail(a), IF Len(b) = 0 THEN b ELSE Tail(b),
                            IF d < 0 THEN 1 ELSE 0)

BigSub(a, b) == BigTrim(BigSubBorrow(a, b, 0))

\* m * 2^e as a multiple of 2^to, for to <= e
BigAligned(m, e, to) == BigTrim(BigShiftLeft(m, e - to))

(* Numbers with a sign: neg tells that the number is below zero. *)

DoubleZero == [neg |-> FALSE, m |-> <<>>, e |-> 0]

\* x + y for a y that is not negative
DoublePlus(x, y) ==
    LET e == Min(x.e, y.e)
        a == BigAligned(x.m, x.e, e)
        b == BigAligned(y.m, y.e, e)
        sum == IF ~x.neg THEN BigTrim(BigAdd(a, b))
               ELSE IF BigLess(a, b) THEN BigSub(b, a) ELSE BigSub(a, b)
        r == DoubleRound(sum, e, FALSE)
    IN [neg |-> x.neg /\ BigLess(b, a), m |-> r.m, e |-> r.e]

\* x - y for a y that is not negative
DoubleMinus(x, y) ==
    LET e == Min(x.e, y.e)
        a == BigAligned(x.m, x.e, e)
        b == BigAligned(y.m, y.e, e)
        sum == IF x.neg THEN BigTrim(BigAdd(a, b))
               ELSE IF BigLess(a, b) THEN BigSub(b, a) ELSE BigSub(a, b)
        r == DoubleRound(sum, e, FALSE)
    IN [neg |-> IF x.neg THEN Len(sum) > 0 ELSE BigLess(a, b), m |-> r.m, e |-> r.e]

\* x >= n for a natural number n
DoubleAtLeast(x, n) ==
    LET e == Min(x.e, 0)
    IN IF n = 0 THEN ~x.neg \/ Len(x.m) = 0
       ELSE ~x.neg /\ ~BigLess(BigAligned(x.m, x.e, e), BigAligned(BigOfInt(n), 0, e))

\* x === y
DoubleSame(x, y) ==
    LET e == Min(x.e, y.e)
        a == BigAligned(x.m, x.e, e)
        b == BigAligned(y.m, y.e, e)
    IN a = b /\ (Len(a) = 0 \/ x.neg = y.neg)

\* Math.max(0, x)
DoubleMaxZero(x) == IF x.neg THEN DoubleZero ELSE x

----------------------------------------------------------------------------
(* Queries on gold_transactions *)

UserTransactionsOfAll(txs, userId) == txs

\* where user_id = userId
UserTransactions(txs, userId) == {t \in txs : t.user_id = userId}

RECURSIVE SumWeight(_)
SumWeight(rows) ==
    IF rows = {} THEN 0
    ELSE LET t == CHOOSE t \in rows : TRUE
         IN t.weight_grams + SumWeight(rows \ {t})

\* select ... where user_id = userId, no ORDER BY: the rows in some order
RowOrders(txs, userId) == Perms(UserTransactions(txs, userId))

\* select ... where user_id = userId order by transaction_date: rows of equal
\* date come in an order the store chooses
DateOrders(txs, userId) ==
    {s \in Perms(UserTransactions(txs, userId)) :
        \A i, j \in 1..Len(s) :
            i < j => s[i].transaction_date <= s[j].transaction_date}

----------------------------------------------------------------------------
(* Holdings *)

calculateTotalGoldHoldings(txs, userId) ==
    LET totalBought == SumWeight({t \in UserTransactions(txs, userId) : t.type = "buy"})
        totalSold == SumWeight({t \in UserTransactions(txs, userId) : t.type = "sell"})
    IN Max(0, totalBought - totalSold)

ApplyTransactionClamped(total, t) ==
    IF t.type = "buy" THEN total + t.weight_grams
    ELSE IF t.type = "sell" THEN Max(0, total - t.weight_grams)
    ELSE total

\* the loop body shared by calculateUserGoldHoldings and findFirstNisabExceedDate
ApplyTransaction(total, t) ==
    IF t.type = "buy" THEN total + t.weight_grams
    ELSE IF t.type = "sell" THEN total - t.weight_grams
    ELSE total

RECURSIVE HoldingsLoop(_, _, _)
HoldingsLoop(transactions, i, totalHoldings) ==
    IF i > Len(transactions) THEN totalHoldings
    ELSE HoldingsLoop(transactions, i + 1,
                      ApplyTransaction(totalHoldings, transactions[i]))

\* parseFloat(transaction.weight_grams)
ParsedWeight(t) ==
    LET weight == DoubleOfDecimal(t.weight_grams, MilliPerGram)
    IN [neg |-> FALSE, m |-> weight.m, e |-> weight.e]

\* the total of either loop after the first k rows, as the number it is
RECURSIVE NumberAfter(_, _)
NumberAfter(transactions, k) ==
    IF k = 0 THEN DoubleZero
    ELSE LET total == NumberAfter(transactions, k - 1)
             t == transactions[k]
         IN IF t.type = "buy" THEN DoublePlus(total, ParsedWeight(t))
            ELSE IF t.type = "sell" THEN DoubleMinus(total, ParsedWeight(t))
            ELSE total

\* the weights are whole grams: the totals are whole numbers too, and exact
WholeGrams(transactions) ==
    \A i \in 1..Len(transactions) : transactions[i].weight_grams % MilliPerGram = 0

\* total >= NISAB_GRAMS for the total after the first k rows.  The number is off
\* the sum of the decimal weights, total, by less than 10^-12 of it, and the sum
\* is a multiple of a thousandth of a gram: where it is other than 85 g the
\* comparison comes out as for the sum
ReachesNisab(transactions, k, total) ==
    IF total # Nisab \/ WholeGrams(transactions)
    THEN total >= Nisab
    ELSE DoubleAtLeast(NumberAfter(transactions, k), NISAB_GRAMS)

UserGoldHoldingsOverNoFloor(transactions) == HoldingsLoop(transactions, 1, 0)

UserGoldHoldingsOver(transactions) == Max(0, HoldingsLoop(transactions, 1, 0))

calculateUserGoldHoldings(txs, userId) ==
    UserGoldHoldingsOver(CHOOSE s \in RowOrders(txs, userId) : TRUE)

\* the number calculateUserGoldHoldings returns for the rows in the order given
UserGoldHoldingsNumber(transactions) ==
    DoubleMaxZero(NumberAfter(transactions, Len(transactions)))

\* currentHoldings >= NISAB_GRAMS: what the comparison can come to, one outcome
\* for each order the store can give the rows in
HoldingsExceedNisab(txs, userId) ==
    {ReachesNisab(s, Len(s), HoldingsLoop(s, 1, 0)) : s \in RowOrders(txs, userId)}

----------------------------------------------------------------------------
(* Zakat eligibility *)

RECURSIVE FindFirstLoop(_, _, _)
FindFirstLoop(transactions, i, runningTotal) ==
    IF i > Len(transactions) THEN None
    ELSE LET total == ApplyTransaction(runningTotal, transactions[i])
         IN IF ReachesNisab(transactions, i, total)
            THEN Some(transactions[i].transaction_date)
            ELSE FindFirstLoop(transactions, i + 1, total)

findFirstNisabExceedDateUnordered(txs, userId) ==
    {FindFirstLoop(s, 1, 0) : s \in RowOrders(txs, userId)}

\* the dates the helper can return: one for each order the store can give
findFirstNisabExceedDate(txs, userId) ==
    {FindFirstLoop(s, 1, 0) : s \in DateOrders(txs, userId)}

\* select ... where user_id = userId order by created_at desc limit 1
SelectLatestReminder(rows, userId) ==
    LET mine == {r \in rows : r.user_id = userId}
        latest == {r \in mine : \A q \in mine : q.created_at <= r.created_at}
    IN IF mine = {} THEN {None} ELSE {Some(r) : r \in latest}

HoldingStartDateReplayed(exceedsNisab, existingReminder, firstExceedDate, today) ==
    IF exceedsNisab
    THEN IF firstExceedDate # None THEN firstExceedDate[1] ELSE today
    ELSE today

HoldingStartDate(exceedsNisab, existingReminder, firstExceedDate, today) ==
    IF exceedsNisab
    THEN IF Len(existingReminder) > 0
         THEN existingReminder[1].holding_start_date
         ELSE IF firstExceedDate # None THEN firstExceedDate[1] ELSE today
    ELSE today

DaysSinceStart(holdingStartDate, today) == (today - holdingStartDate) \div Day

IsEligibleAfterLunarYear(exceedsNisab, holdingStartDate, today) ==
    exceedsNisab /\ DaysSinceStart(holdingStartDate, today) > LUNAR_YEAR_DAYS

IsEligible(exceedsNisab, holdingStartDate, today) ==
    exceedsNisab /\ DaysSinceStart(holdingStartDate, today) >= LUNAR_YEAR_DAYS

NextReminderDateAlways(isEligible, holdingStartDate) ==
    Some(holdingStartDate + LUNAR_YEAR_DAYS * 2 * Day)

NextReminderDateNull(isEligible, holdingStartDate) == None

NextReminderDate(isEligible, holdingStartDate) ==
    IF isEligible
    THEN Some(holdingStartDate + LUNAR_YEAR_DAYS * 2 * Day)
    ELSE None

\* the columns both the update and the insert of updateZakatStatus set
ReminderValues(currentHoldings, holdingStartDate, isEligible, nextReminderDate, today) ==
    [gold_weight_grams |-> currentHoldings,
     holding_start_date |-> holdingStartDate,
     is_eligible |-> isEligible,
     next_reminder_date |-> nextReminderDate,
     updated_at |-> today]

\* db.update(zakatRemindersTable).set(values).where(id = reminderId)
UpdateReminder(rows, reminderId, values) ==
    {IF r.id = reminderId
     THEN [r EXCEPT !.gold_weight_grams = values.gold_weight_grams,
                    !.holding_start_date = values.holding_start_date,
                    !.is_eligible = values.is_eligible,
                    !.next_reminder_date = values.next_reminder_date,
                    !.updated_at = values.updated_at]
     ELSE r : r \in rows}

\* db.insert(zakatRemindersTable).values(...): id from the serial, created_at
\* and updated_at from defaultNow()
InsertReminder(rows, newId, userId, values, today) ==
    rows \cup {[id |-> newId,
                user_id |-> userId,
                gold_weight_grams |-> values.gold_weight_grams,
                holding_start_date |-> values.holding_start_date,
                is_eligible |-> values.is_eligible,
                next_reminder_date |-> values.next_reminder_date,
                created_at |-> today,
                updated_at |-> today]}

WriteReminderInsertOnly(rows, existingReminder, newId, userId, values, today) ==
    InsertReminder(rows, newId, userId, values, today)

\* step 5 of updateZakatStatus: update the record read before, or insert one
WriteReminder(rows, existingReminder, newId, userId, values, today) ==
    IF Len(existingReminder) > 0
    THEN UpdateReminder(rows, existingReminder[1].id, values)
    ELSE InsertReminder(rows, newId, userId, values, today)

\* .returning(): the row the statement wrote
WrittenReminder(rows, existingReminder, newId) ==
    LET reminderId == IF Len(existingReminder) > 0 THEN existingReminder[1].id ELSE newId
    IN CHOOSE r \in rows : r.id = reminderId

----------------------------------------------------------------------------
(* Reading and advancing the zakat records *)

\* select ... where user_id = userId order by created_at desc limit 1, or null
getZakatStatus(rows, userId) == SelectLatestReminder(rows, userId)

ZakatAmountOfAnyRecord(zakatStatus, currentGoldPricePerGram) ==
    IF zakatStatus = None
    THEN 0
    ELSE (zakatStatus[1].gold_weight_grams * currentGoldPricePerGram
            + (MilliPerGram * ZAKAT_RATE_INVERSE) \div 2)
         \div (MilliPerGram * ZAKAT_RATE_INVERSE)

\* the value of calculateZakatAmount, in cents:
\* Math.round(gold_weight_grams * price * ZAKAT_RATE * 100) / 100
ZakatAmount(zakatStatus, currentGoldPricePerGram) ==
    IF zakatStatus = None \/ ~zakatStatus[1].is_eligible
    THEN 0
    ELSE (zakatStatus[1].gold_weight_grams * currentGoldPricePerGram
            + (MilliPerGram * ZAKAT_RATE_INVERSE) \div 2)
         \div (MilliPerGram * ZAKAT_RATE_INVERSE)

DueRemindersOfAnyEligibility(rows, today) ==
    {r \in rows : r.next_reminder_date # None /\ r.next_reminder_date[1] <= today}

\* where is_eligible = true and next_reminder_date <= today; the comparison is
\* not true of a null
DueReminders(rows, today) ==
    {r \in rows : /\ r.is_eligible
                  /\ r.next_reminder_date # None
                  /\ r.next_reminder_date[1] <= today}

SetNextReminderDateOfAll(rows, zakatReminderId, nextDate, today) ==
    {[r EXCEPT !.next_reminder_date = Some(nextDate), !.updated_at = today] :
        r \in rows}

\* update zakat_reminders set next_reminder_date, updated_at where id = ...
SetNextReminderDate(rows, zakatReminderId, nextDate, today) ==
    {IF r.id = zakatReminderId
     THEN [r EXCEPT !.next_reminder_date = Some(nextDate), !.updated_at = today]
     ELSE r : r \in rows}

\* result.rowCount
RowCount(rows, zakatReminderId) == Cardinality({r \in rows : r.id = zakatReminderId})

----------------------------------------------------------------------------
(* The price cache *)

CacheExpiredAtExpiry(entry, today) == today >= entry.expires_at

\* now > goldPriceCache.expires_at
CacheExpired(entry, today) == today > entry.expires_at

CacheLookupMiss(cache, today) == [value |-> None, cache |-> cache]

\* getCachedGoldPrice: the value returned and the slot it leaves
CacheLookup(cache, today) ==
    IF cache = None THEN [value |-> None, cache |-> None]
    ELSE IF CacheExpired(cache[1], today) THEN [value |-> None, cache |-> None]
    ELSE [value |-> Some(cache[1].price), cache |-> cache]

\* the entry updateGoldPriceCache puts in the slot
CacheEntry(goldPrice, today) ==
    Some([price |-> goldPrice, expires_at |-> today + CACHE_DURATION_MS])

\* fetchCurrentGoldPrice: the quote, or the error thrown from its catch
FetchOutcome(feed, today) ==
    IF feed.ok
    THEN [threw |-> None,
          value |-> [price_per_gram_usd |-> feed.price, timestamp |-> today]]
    ELSE [threw |-> Some("Unable to fetch current gold price")]

RefreshOutcomeCachingFailure(cache, feed, today) ==
    LET cached == CacheLookup(cache, today)
        fresh == FetchOutcome(feed, today)
    IN IF cached.value # None
       THEN [value |-> cached.value, threw |-> None, fetches |-> 0, cache |-> cached.cache]
       ELSE IF fresh.threw # None
            THEN [value |-> None, threw |-> fresh.threw, fetches |-> 1,
                  cache |-> CacheEntry([price_per_gram_usd |-> 0, timestamp |-> today], today)]
            ELSE [value |-> Some(fresh.value), threw |-> None, fetches |-> 1,
                  cache |-> CacheEntry(fresh.value, today)]

\* getGoldPriceWithRefresh run without interruption: the value returned or the
\* error thrown, the calls of fetchCurrentGoldPrice made, the slot it leaves
RefreshOutcome(cache, feed, today) ==
    LET cached == CacheLookup(cache, today)
        fresh == FetchOutcome(feed, today)
    IN IF cached.value # None
       THEN [value |-> cached.value, threw |-> None, fetches |-> 0, cache |-> cached.cache]
       ELSE IF fresh.threw # None
            THEN [value |-> None, threw |-> fresh.threw, fetches |-> 1,
                  cache |-> cached.cache]
            ELSE [value |-> Some(fresh.value), threw |-> None, fetches |-> 1,
                  cache |-> CacheEntry(fresh.value, today)]

----------------------------------------------------------------------------
(* Goal progress *)

\* n / d rounded to the nearest integer, halves up (Math.round), for n >= 0, d > 0
RoundDiv(n, d) == (2 * n + d) \div (2 * d)

\* current_progress_percentage, in hundredths of a percent:
\* Math.round(Math.min(100, currentHoldings / targetWeight * 100) * 100) / 100
ProgressPercentageUncapped(currentHoldings, targetWeight) ==
    IF targetWeight > 0
    THEN RoundDiv(currentHoldings * 100 * 100, targetWeight)
    ELSE 0

ProgressPercentage(currentHoldings, targetWeight) ==
    IF targetWeight > 0
    THEN IF currentHoldings >= targetWeight
         THEN 100 * 100
         ELSE RoundDiv(currentHoldings * 100 * 100, targetWeight)
    ELSE 0

GoalsProgressCompleting(goals, txs, userId) ==
    LET currentHoldings == calculateTotalGoldHoldings(txs, userId)
    IN {[id |-> goal.id,
         target_weight_grams |-> goal.target_weight_grams,
         current_progress_percentage |->
             ProgressPercentage(currentHoldings, goal.target_weight_grams),
         is_completed |-> \/ goal.is_completed
                          \/ ProgressPercentage(currentHoldings, goal.target_weight_grams)
                                = 100 * 100] :
        goal \in {g \in goals : g.user_id = userId}}

GoalsProgress(goals, txs, userId) ==
    LET currentHoldings == calculateTotalGoldHoldings(txs, userId)
    IN {[id |-> goal.id,
         target_weight_grams |-> goal.target_weight_grams,
         current_progress_percentage |->
             ProgressPercentage(currentHoldings, goal.target_weight_grams),
         is_completed |-> goal.is_completed] :
        goal \in {g \in goals : g.user_id = userId}}

----------------------------------------------------------------------------
(* The dashboard *)

\* select sum(weight_grams) where user_id = userId and type = ...; no rows, 0
SumOfType(txs, userId, type) ==
    SumWeight({t \in UserTransactions(txs, userId) : t.type = type})

\* Math.max(0, totalBought - totalSold)
NetHoldings(totalBought, totalSold) == Max(0, totalBought - totalSold)

\* goals.map(...) of calculateGoalsProgress, over the holdings it has read
GoalsProgressOver(goals, currentHoldings) ==
    {[id |-> goal.id,
      target_weight_grams |-> goal.target_weight_grams,
      current_progress_percentage |->
          ProgressPercentage(currentHoldings, goal.target_weight_grams),
      is_completed |-> goal.is_completed] : goal \in goals}

\* select transaction_date ... order by transaction_date limit 1
FirstTransaction(txs, userId) ==
    LET mine == UserTransactions(txs, userId)
    IN IF mine = {} THEN None
       ELSE Some((CHOOSE t \in mine :
                     \A q \in mine : t.transaction_date <= q.transaction_date)
                 .transaction_date)

MeetsThreshold(currentWeightGrams) ==
    currentWeightGrams >= ZAKAT_NISAB_GRAMS * MilliPerGram

\* the value of calculateZakatStatus; firstTransaction is read only when the
\* threshold is met
DashboardZakatStatus(currentWeightGrams, firstTransaction, today) ==
    LET meetsThreshold == MeetsThreshold(currentWeightGrams)
        daysHeld == IF meetsThreshold /\ firstTransaction # None
                    THEN Some((today - firstTransaction[1]) \div Day)
                    ELSE None
    IN [is_eligible |-> /\ meetsThreshold
                        /\ daysHeld # None
                        /\ daysHeld[1] >= ZAKAT_REQUIRED_DAYS,
        current_weight_grams |-> currentWeightGrams,
        threshold_grams |-> ZAKAT_NISAB_GRAMS,
        days_held |-> daysHeld,
        required_days |-> ZAKAT_REQUIRED_DAYS]

\* the value getDashboardData assembles; estimated_total_value is not rounded:
\* thousandths of a gram times cents
DashboardData(totalGoldGrams, goalsProgress, zakatStatus) ==
    [total_gold_grams |-> totalGoldGrams,
     estimated_total_value |-> totalGoldGrams * DashboardGoldPrice,
     current_gold_price |-> DashboardGoldPrice,
     goals_progress |-> goalsProgress,
     zakat_status |-> zakatStatus]

----------------------------------------------------------------------------
(* Handlers, each a single step *)

NoCall == [pc |-> "idle"]

NoRet == [op |-> "none"]

Init ==
    /\ now = StartTime
    /\ goldTransactions = {}
    /\ nextTxId = 1
    /\ goldGoals = {}
    /\ nextGoalId = 1
    /\ zakatReminders = {}
    /\ nextZakatId = 1
    /\ calls = [c \in Calls |-> NoCall]
    /\ ret = NoRet
    /\ goldPriceCache = None

\* totalPrice, in cents: Math.round((weight_grams * price_per_gram) * 100) / 100.
\* Where the product is not half a cent off a cent, the error of the doubles,
\* below 10^-15 of the value, does not reach the half cent and the nearest cent
\* is computed exactly; at the half cent the doubles decide
TotalPrice(weight_grams, price_per_gram) ==
    IF (weight_grams * price_per_gram) % MilliPerGram = MilliPerGram \div 2
    THEN RoundedCents(weight_grams, price_per_gram)
    ELSE (2 * weight_grams * price_per_gram + MilliPerGram) \div (2 * MilliPerGram)

createTransaction(userId, type, weight_grams, price_per_gram, transaction_date) ==
    /\ Cardinality(goldTransactions) < MaxTx
    /\ LET row == [id |-> nextTxId,
                   user_id |-> userId,
                   type |-> type,
                   weight_grams |-> weight_grams,
                   price_per_gram |-> price_per_gram,
                   total_price |-> TotalPrice(weight_grams, price_per_gram),
                   transaction_date |-> transaction_date]
       IN /\ goldTransactions' = goldTransactions \cup {row}
          /\ ret' = [op |-> "createTransaction", user |-> userId, value |-> row]
    /\ nextTxId' = nextTxId + 1
    /\ UNCHANGED <<goldPriceCache, now, goldGoals, nextGoalId, zakatReminders, nextZakatId, calls>>

\* the columns updateTransaction sets: those given, and total_price when the
\* weight or the price is given
UpdatedTransaction(existingTransaction, input) ==
    LET finalWeightGrams == IF input.weight_grams # None
                            THEN input.weight_grams[1]
                            ELSE existingTransaction.weight_grams
        finalPricePerGram == IF input.price_per_gram # None
                             THEN input.price_per_gram[1]
                             ELSE existingTransaction.price_per_gram
    IN [existingTransaction EXCEPT
          !.type = IF input.type # None THEN input.type[1] ELSE @,
          !.weight_grams = IF input.weight_grams # None THEN input.weight_grams[1] ELSE @,
          !.price_per_gram = IF input.price_per_gram # None
                             THEN input.price_per_gram[1] ELSE @,
          !.transaction_date = IF input.transaction_date # None
                               THEN input.transaction_date[1] ELSE @,
          !.total_price = IF input.weight_grams # None \/ input.price_per_gram # None
                          THEN TotalPrice(finalWeightGrams, finalPricePerGram)
                          ELSE @]

updateTransaction(input) ==
    /\ LET existingTransactions == {t \in goldTransactions : t.id = input.id}
       IN IF existingTransactions = {}
          THEN /\ goldTransactions' = goldTransactions
               /\ ret' = [op |-> "updateTransaction", input |-> input,
                          existing |-> None, value |-> None,
                          threw |-> Some("Transaction not found")]
          ELSE LET existingTransaction == CHOOSE t \in existingTransactions : TRUE
                   updatedTransaction == UpdatedTransaction(existingTransaction, input)
               IN /\ goldTransactions' =
                        (goldTransactions \ {existingTransaction}) \cup {updatedTransaction}
                  /\ ret' = [op |-> "updateTransaction", input |-> input,
                             existing |-> Some(existingTransaction),
                             value |-> Some(updatedTransaction), threw |-> None]
    /\ UNCHANGED <<goldPriceCache, now, nextTxId, goldGoals, nextGoalId,
                   zakatReminders, nextZakatId, calls>>

deleteTransaction(transactionId, userId) ==
    /\ LET result == {t \in goldTransactions : t.id = transactionId /\ t.user_id = userId}
       IN /\ goldTransactions' = goldTransactions \ result
          /\ ret' = [op |-> "deleteTransaction", id |-> transactionId, user |-> userId,
                     value |-> result # {}]
    /\ UNCHANGED <<goldPriceCache, now, nextTxId, goldGoals, nextGoalId,
                   zakatReminders, nextZakatId, calls>>

updateZakatStatus(userId) ==
    LET currentHoldings == calculateUserGoldHoldings(goldTransactions, userId)
    IN \E exceedsNisab \in HoldingsExceedNisab(goldTransactions, userId) :
       \E existingReminder \in SelectLatestReminder(zakatReminders, userId) :
       \E firstExceedDate \in findFirstNisabExceedDate(goldTransactions, userId) :
          LET holdingStartDate ==
                  HoldingStartDate(exceedsNisab, existingReminder, firstExceedDate, now)
              isEligible == IsEligible(exceedsNisab, holdingStartDate, now)
              nextReminderDate == NextReminderDate(isEligible, holdingStartDate)
              values == ReminderValues(currentHoldings, holdingStartDate, isEligible,
                                       nextReminderDate, now)
              written == WriteReminder(zakatReminders, existingReminder, nextZakatId,
                                       userId, values, now)
          IN /\ zakatReminders' = written
             /\ nextZakatId' = IF Len(existingReminder) > 0
                               THEN nextZakatId ELSE nextZakatId + 1
             /\ ret' = [op |-> "updateZakatStatus", user |-> userId,
                        existing |-> existingReminder,
                        exceedsNisab |-> exceedsNisab,
                        replayed |-> exceedsNisab /\ Len(existingReminder) = 0,
                        fellBack |-> /\ exceedsNisab
                                     /\ Len(existingReminder) = 0
                                     /\ firstExceedDate = None,
                        value |-> WrittenReminder(written, existingReminder, nextZakatId)]
             /\ UNCHANGED <<goldPriceCache, now, goldTransactions, nextTxId, goldGoals, nextGoalId, calls>>

createGoal(userId, target_weight_grams) ==
    /\ Cardinality(goldGoals) < MaxGoals
    /\ userId \in AllUsers
    /\ LET goal == [id |-> nextGoalId,
                    user_id |-> userId,
                    target_weight_grams |-> target_weight_grams,
                    is_completed |-> FALSE,
                    updated_at |-> now]
       IN /\ goldGoals' = goldGoals \cup {goal}
          /\ ret' = [op |-> "createGoal", user |-> userId, value |-> goal]
    /\ nextGoalId' = nextGoalId + 1
    /\ UNCHANGED <<goldPriceCache, now, goldTransactions, nextTxId, zakatReminders, nextZakatId, calls>>

\* where id = ... and user_id = ...: the rows a statement of a handler that is
\* given a record id and a user id acts on
OwnedRowsOfAnyUser(rows, id, userId) == {r \in rows : r.id = id}

OwnedRows(rows, id, userId) == {r \in rows : r.id = id /\ r.user_id = userId}

\* the first row of a result, or null when there is none
FirstRowOrNull(rows) == IF rows = {} THEN None ELSE Some(CHOOSE r \in rows : TRUE)

getTransactionById(transactionId, userId) ==
    /\ ret' = [op |-> "getTransactionById", id |-> transactionId, user |-> userId,
               value |-> FirstRowOrNull(OwnedRows(goldTransactions, transactionId, userId))]
    /\ UNCHANGED <<goldPriceCache, now, goldTransactions, nextTxId, goldGoals, nextGoalId,
                   zakatReminders, nextZakatId, calls>>

deleteGoal(goalId, userId) ==
    /\ LET result == OwnedRows(goldGoals, goalId, userId)
       IN /\ goldGoals' = goldGoals \ result
          /\ ret' = [op |-> "deleteGoal", id |-> goalId, user |-> userId,
                     value |-> result # {}]
    /\ UNCHANGED <<goldPriceCache, now, goldTransactions, nextTxId, nextGoalId,
                   zakatReminders, nextZakatId, calls>>

getGoalById(goalId, userId) ==
    /\ ret' = [op |-> "getGoalById", id |-> goalId, user |-> userId,
               value |-> FirstRowOrNull(OwnedRows(goldGoals, goalId, userId))]
    /\ UNCHANGED <<goldPriceCache, now, goldTransactions, nextTxId, goldGoals, nextGoalId,
                   zakatReminders, nextZakatId, calls>>

\* update gold_goals set is_completed = true, updated_at = new Date() where ...
CompletedGoal(goal, today) == [goal EXCEPT !.is_completed = TRUE, !.updated_at = today]

markGoalCompleted(goalId, userId) ==
    /\ LET matched == OwnedRows(goldGoals, goalId, userId)
           result == {CompletedGoal(g, now) : g \in matched}
       IN /\ goldGoals' = (goldGoals \ matched) \cup result
          /\ ret' = [op |-> "markGoalCompleted", id |-> goalId, user |-> userId,
                     value |-> FirstRowOrNull(result)]
    /\ UNCHANGED <<goldPriceCache, now, goldTransactions, nextTxId, nextGoalId,
                   zakatReminders, nextZakatId, calls>>

\* the columns updateGoal sets: those given, and updated_at
UpdatedGoal(existingGoal, input, today) ==
    [existingGoal EXCEPT
       !.target_weight_grams = IF input.target_weight_grams # None
                               THEN input.target_weight_grams[1] ELSE @,
       !.is_completed = IF input.is_completed # None THEN input.is_completed[1] ELSE @,
       !.updated_at = today]

updateGoal(input) ==
    /\ LET existingGoal == {g \in goldGoals : g.id = input.id}
       IN IF existingGoal = {}
          THEN /\ goldGoals' = goldGoals
               /\ ret' = [op |-> "updateGoal", input |-> input, value |-> None,
                          threw |-> Some("Goal not found")]
          ELSE LET goal == CHOOSE g \in existingGoal : TRUE
                   updated == UpdatedGoal(goal, input, now)
               IN /\ goldGoals' = (goldGoals \ {goal}) \cup {updated}
                  /\ ret' = [op |-> "updateGoal", input |-> input,
                             value |-> Some(updated), threw |-> None]
    /\ UNCHANGED <<goldPriceCache, now, goldTransactions, nextTxId, nextGoalId,
                   zakatReminders, nextZakatId, calls>>

calculateGoalsProgress(userId) ==
    /\ ret' = [op |-> "calculateGoalsProgress", user |-> userId,
               value |-> GoalsProgress(goldGoals, goldTransactions, userId)]
    /\ UNCHANGED <<goldPriceCache, now, goldTransactions, nextTxId, goldGoals, nextGoalId,
                   zakatReminders, nextZakatId, calls>>

calculateZakatAmount(userId, currentGoldPricePerGram) ==
    /\ \E zakatStatus \in getZakatStatus(zakatReminders, userId) :
          ret' = [op |-> "calculateZakatAmount", user |-> userId,
                  price |-> currentGoldPricePerGram, status |-> zakatStatus,
                  value |-> ZakatAmount(zakatStatus, currentGoldPricePerGram)]
    /\ UNCHANGED <<goldPriceCache, now, goldTransactions, nextTxId, goldGoals, nextGoalId,
                   zakatReminders, nextZakatId, calls>>

getUsersForZakatReminder ==
    /\ ret' = [op |-> "getUsersForZakatReminder", today |-> now,
               value |-> DueReminders(zakatReminders, now)]
    /\ UNCHANGED <<goldPriceCache, now, goldTransactions, nextTxId, goldGoals, nextGoalId,
                   zakatReminders, nextZakatId, calls>>

updateNextReminderDate(zakatReminderId, nextDate) ==
    /\ zakatReminders' = SetNextReminderDate(zakatReminders, zakatReminderId, nextDate, now)
    /\ ret' = [op |-> "updateNextReminderDate", id |-> zakatReminderId,
               nextDate |-> nextDate, today |-> now,
               value |-> RowCount(zakatReminders, zakatReminderId) > 0]
    /\ UNCHANGED <<goldPriceCache, now, goldTransactions, nextTxId, goldGoals, nextGoalId,
                   nextZakatId, calls>>

getCachedGoldPrice ==
    /\ goldPriceCache' = CacheLookup(goldPriceCache, now).cache
    /\ ret' = [op |-> "getCachedGoldPrice", today |-> now, entry |-> goldPriceCache,
               value |-> CacheLookup(goldPriceCache, now).value]
    /\ UNCHANGED <<now, goldTransactions, nextTxId, goldGoals, nextGoalId,
                   zakatReminders, nextZakatId, calls>>

updateGoldPriceCache(goldPrice) ==
    /\ goldPriceCache' = CacheEntry(goldPrice, now)
    /\ ret' = [op |-> "updateGoldPriceCache", today |-> now, goldPrice |-> goldPrice,
               value |-> TRUE]
    /\ UNCHANGED <<now, goldTransactions, nextTxId, goldGoals, nextGoalId,
                   zakatReminders, nextZakatId, calls>>

clearGoldPriceCache ==
    /\ goldPriceCache' = None
    /\ ret' = [op |-> "clearGoldPriceCache", today |-> now]
    /\ UNCHANGED <<now, goldTransactions, nextTxId, goldGoals, nextGoalId,
                   zakatReminders, nextZakatId, calls>>

getGoldPriceWithRefresh(feed) ==
    /\ LET outcome == RefreshOutcome(goldPriceCache, feed, now)
       IN /\ goldPriceCache' = outcome.cache
          /\ ret' = [op |-> "getGoldPriceWithRefresh", today |-> now,
                     value |-> outcome.value, threw |-> outcome.threw,
                     fetches |-> outcome.fetches]
    /\ UNCHANGED <<now, goldTransactions, nextTxId, goldGoals, nextGoalId,
                   zakatReminders, nextZakatId, calls>>

CacheTick ==
    /\ now < MaxCacheNow
    /\ now' = now + 1
    /\ UNCHANGED <<goldPriceCache, goldTransactions, nextTxId, goldGoals, nextGoalId,
                   zakatReminders, nextZakatId, calls, ret>>

getDashboardData(userId) ==
    /\ LET totalGoldGrams == calculateTotalGoldHoldings(goldTransactions, userId)
           goalsProgress == GoalsProgress(goldGoals, goldTransactions, userId)
           zakatStatus == DashboardZakatStatus(totalGoldGrams,
                              FirstTransaction(goldTransactions, userId), now)
       IN ret' = [op |-> "getDashboardData", user |-> userId, today |-> now,
                  value |-> DashboardData(totalGoldGrams, goalsProgress, zakatStatus)]
    /\ UNCHANGED <<goldPriceCache, now, goldTransactions, nextTxId, goldGoals, nextGoalId,
                   zakatReminders, nextZakatId, calls>>

Tick ==
    /\ now < MaxNow
    /\ now' = now + 1
    /\ UNCHANGED <<goldPriceCache, goldTransactions, nextTxId, goldGoals, nextGoalId,
                   zakatReminders, nextZakatId, calls, ret, goldPriceCache>>

Next ==
    \/ \E u \in Users, ty \in {"buy", "sell"}, w \in Weights, p \in Prices, d \in TxDates :
          createTransaction(u, ty, w, p, d)
    \/ \E u \in Users : updateZakatStatus(u)
    \/ Tick

Spec == Init /\ [][Next]_vars

----------------------------------------------------------------------------
(* updateZakatStatus step by step: each await is a store operation of its own,
   and other calls run between them.  calls[c] holds the locals of call c. *)

\* await calculateUserGoldHoldings(userId); then holdingStartDate = new Date()
zakatReadHoldings(c, userId) ==
    /\ calls[c].pc = "idle"
    /\ \E exceedsNisab \in HoldingsExceedNisab(goldTransactions, userId) :
          calls' = [calls EXCEPT ![c] =
             [pc |-> "existing",
              userId |-> userId,
              currentHoldings |-> calculateUserGoldHoldings(goldTransactions, userId),
              exceedsNisab |-> exceedsNisab,
              holdingStartDate |-> now]]
    /\ UNCHANGED <<goldPriceCache, now, goldTransactions, nextTxId, goldGoals, nextGoalId,
                   zakatReminders, nextZakatId, ret>>

\* await db.select().from(zakatRemindersTable)...; then, unless the history has
\* to be replayed, everything up to the arguments of the write
zakatReadExisting(c) ==
    /\ calls[c].pc = "existing"
    /\ \E existingReminder \in SelectLatestReminder(zakatReminders, calls[c].userId) :
          LET f == calls[c]
              exceedsNisab == f.exceedsNisab
              holdingStartDate ==
                  HoldingStartDate(exceedsNisab, existingReminder, None, f.holdingStartDate)
              isEligible == IsEligible(exceedsNisab, holdingStartDate, now)
          IN calls' = [calls EXCEPT ![c] =
                IF exceedsNisab /\ Len(existingReminder) = 0
                THEN [pc |-> "first",
                      userId |-> f.userId,
                      currentHoldings |-> f.currentHoldings,
                      existingReminder |-> existingReminder]
                ELSE [pc |-> "write",
                      userId |-> f.userId,
                      existingReminder |-> existingReminder,
                      values |-> ReminderValues(f.currentHoldings, holdingStartDate,
                                     isEligible,
                                     NextReminderDate(isEligible, holdingStartDate), now)]]
    /\ UNCHANGED <<goldPriceCache, now, goldTransactions, nextTxId, goldGoals, nextGoalId,
                   zakatReminders, nextZakatId, ret>>

\* await findFirstNisabExceedDate(userId); then everything up to the arguments
\* of the write
zakatFindFirst(c) ==
    /\ calls[c].pc = "first"
    /\ \E firstExceedDate \in findFirstNisabExceedDate(goldTransactions, calls[c].userId) :
          LET f == calls[c]
              holdingStartDate ==
                  HoldingStartDate(TRUE, f.existingReminder, firstExceedDate, now)
              isEligible == IsEligible(TRUE, holdingStartDate, now)
          IN calls' = [calls EXCEPT ![c] =
                [pc |-> "write",
                 userId |-> f.userId,
                 existingReminder |-> f.existingReminder,
                 values |-> ReminderValues(f.currentHoldings, holdingStartDate,
                                isEligible,
                                NextReminderDate(isEligible, holdingStartDate), now)]]
    /\ UNCHANGED <<goldPriceCache, now, goldTransactions, nextTxId, goldGoals, nextGoalId,
                   zakatReminders, nextZakatId, ret>>

\* await db.update(...) or await db.insert(...); then return
zakatWrite(c) ==
    /\ calls[c].pc = "write"
    /\ LET f == calls[c]
           written == WriteReminder(zakatReminders, f.existingReminder, nextZakatId,
                                    f.userId, f.values, now)
       IN /\ zakatReminders' = written
          /\ nextZakatId' = IF Len(f.existingReminder) > 0
                            THEN nextZakatId ELSE nextZakatId + 1
          /\ calls' = [calls EXCEPT ![c] =
                [pc |-> "done",
                 userId |-> f.userId,
                 existingReminder |-> f.existingReminder,
                 result |-> WrittenReminder(written, f.existingReminder, nextZakatId)]]
    /\ UNCHANGED <<goldPriceCache, now, goldTransactions, nextTxId, goldGoals, nextGoalId, ret>>

NextConcurrent ==
    \/ \E u \in Users, ty \in {"buy", "sell"}, d \in TxDates, p \in Prices :
          createTransaction(u, ty, 100 * MilliPerGram, p, d)
    \/ \E c \in Calls, u \in Users : zakatReadHoldings(c, u)
    \/ \E c \in Calls : zakatReadExisting(c)
    \/ \E c \in Calls : zakatFindFirst(c)
    \/ \E c \in Calls : zakatWrite(c)
    \/ Tick

SpecConcurrent == Init /\ [][NextConcurrent]_vars

\* the ledger and the goals, and the progress read from them
NextGoals ==
    \/ \E u \in Users, ty \in {"buy", "sell"}, w \in Weights, p \in Prices :
          createTransaction(u, ty, w, p, now)
    \/ \E u \in Users, target \in Targets : createGoal(u, target)
    \/ \E u \in Users : calculateGoalsProgress(u)

SpecGoals == Init /\ [][NextGoals]_vars

\* the zakat records of several users, each of whom buys 100 g once: written by
\* updateZakatStatus, read by calculateZakatAmount and getUsersForZakatReminder,
\* advanced by updateNextReminderDate
NextReminders ==
    \/ \E u \in AllUsers, p \in Prices, d \in {0, Day} :
          /\ UserTransactions(goldTransactions, u) = {}
          /\ createTransaction(u, "buy", 100 * MilliPerGram, p, d)
    \/ \E u \in AllUsers : updateZakatStatus(u)
    \/ \E u \in AllUsers, p \in ZakatPrices : calculateZakatAmount(u, p)
    \/ getUsersForZakatReminder
    \/ \E id \in 1..(MaxUsers + 1), d \in ReminderDates : updateNextReminderDate(id, d)
    \/ now = StartTime /\ Tick

SpecReminders == Init /\ [][NextReminders]_vars

\* the price cache, its handlers called one after the other
NextCache ==
    \/ getCachedGoldPrice
    \/ \E price \in FeedPrices :
          \E timestamp \in {StartTime, now} :
             updateGoldPriceCache([price_per_gram_usd |-> price, timestamp |-> timestamp])
    \/ clearGoldPriceCache
    \/ \E feed \in FeedOutcomes : getGoldPriceWithRefresh(feed)
    \/ CacheTick

SpecCache == Init /\ [][NextCache]_vars

----------------------------------------------------------------------------
(* getGoldPriceWithRefresh step by step: other calls run at each await.  The
   frame of a call also keeps when it looked in the cache and when it stored. *)

\* await getCachedGoldPrice(); return cachedPrice if there is one
priceGetCached(c) ==
    /\ calls[c].pc = "idle"
    /\ LET cached == CacheLookup(goldPriceCache, now)
       IN /\ goldPriceCache' = cached.cache
          /\ calls' = [calls EXCEPT ![c] =
                IF cached.value # None
                THEN [pc |-> "done", missed |-> FALSE, lookedAt |-> now,
                      value |-> cached.value, threw |-> None]
                ELSE [pc |-> "fetch", lookedAt |-> now]]
    /\ UNCHANGED <<now, goldTransactions, nextTxId, goldGoals, nextGoalId,
                   zakatReminders, nextZakatId, ret>>

\* await fetchCurrentGoldPrice(); an error is thrown on to the caller
priceFetch(c, feed) ==
    /\ calls[c].pc = "fetch"
    /\ LET fresh == FetchOutcome(feed, now)
       IN calls' = [calls EXCEPT ![c] =
             IF fresh.threw # None
             THEN [pc |-> "done", missed |-> TRUE, lookedAt |-> calls[c].lookedAt,
                   value |-> None, threw |-> fresh.threw]
             ELSE [pc |-> "store", lookedAt |-> calls[c].lookedAt,
                   freshPrice |-> fresh.value]]
    /\ UNCHANGED <<goldPriceCache, now, goldTransactions, nextTxId, goldGoals, nextGoalId,
                   zakatReminders, nextZakatId, ret>>

\* await updateGoldPriceCache(freshPrice); return freshPrice
priceStore(c) ==
    /\ calls[c].pc = "store"
    /\ goldPriceCache' = CacheEntry(calls[c].freshPrice, now)
    /\ calls' = [calls EXCEPT ![c] =
          [pc |-> "done", missed |-> TRUE, lookedAt |-> calls[c].lookedAt,
           storedAt |-> now, value |-> Some(calls[c].freshPrice), threw |-> None]]
    /\ UNCHANGED <<now, goldTransactions, nextTxId, goldGoals, nextGoalId,
                   zakatReminders, nextZakatId, ret>>

NextCacheConcurrent ==
    \/ \E c \in Calls : priceGetCached(c)
    \/ \E c \in Calls, feed \in FeedOutcomes : priceFetch(c, feed)
    \/ \E c \in Calls : priceStore(c)
    \/ CacheTick

SpecCacheConcurrent == Init /\ [][NextCacheConcurrent]_vars

\* the ledger: up to MaxLedgerTx transactions created, and updated and deleted
NextLedger ==
    \/ \E u \in Users, w \in LedgerWeights, p \in LedgerPrices :
          /\ nextTxId <= MaxLedgerTx
          /\ createTransaction(u, "buy", w, p, now)
    \/ \E id \in 1..MaxLedgerTx,
          ty \in {None, Some("sell")},
          w \in {None} \cup {Some(x) : x \in LedgerWeights},
          p \in {None} \cup {Some(x) : x \in LedgerPrices} :
          updateTransaction([id |-> id, type |-> ty, weight_grams |-> w,
                             price_per_gram |-> p, transaction_date |-> None])
    \/ \E id \in 1..MaxLedgerTx, u \in AllUsers : deleteTransaction(id, u)

SpecLedger == Init /\ [][NextLedger]_vars

\* the dashboard and the zakat engine over one ledger, called one after the other
NextDashboard ==
    \/ \E u \in Users, ty \in {"buy", "sell"}, w \in Weights, p \in Prices, d \in TxDates :
          /\ nextTxId <= MaxLedgerTx
          /\ createTransaction(u, ty, w, p, d)
    \/ \E u \in Users : createGoal(u, 100 * MilliPerGram)
    \/ \E u \in Users : getDashboardData(u)
    \/ \E u \in Users : updateZakatStatus(u)
    \/ Tick

SpecDashboard == Init /\ [][NextDashboard]_vars

\* the transactions and the goals of several users, and the handlers that are
\* given a record id together with a user id
NextOwnership ==
    \/ \E u \in AllUsers, p \in Prices :
          /\ nextTxId <= MaxLedgerTx
          /\ createTransaction(u, "buy", 100 * MilliPerGram, p, now)
    \/ \E u \in AllUsers :
          /\ nextGoalId <= MaxGoals
          /\ createGoal(u, 100 * MilliPerGram)
    \/ \E id \in 1..(MaxLedgerTx + 1), u \in AllUsers : deleteTransaction(id, u)
    \/ \E id \in 1..(MaxLedgerTx + 1), u \in AllUsers : getTransactionById(id, u)
    \/ \E id \in 1..(MaxGoals + 1), u \in AllUsers : deleteGoal(id, u)
    \/ \E id \in 1..(MaxGoals + 1), u \in AllUsers : getGoalById(id, u)
    \/ \E id \in 1..(MaxGoals + 1), u \in AllUsers : markGoalCompleted(id, u)
    \/ now = StartTime /\ Tick

SpecOwnership == Init /\ [][NextOwnership]_vars

\* several users, each with transactions, goals and a zakat record of their own:
\* updateZakatStatus step by step for any of them, calls for different users
\* running between each other's steps
NextIndependence ==
    \/ \E u \in AllUsers, ty \in {"buy", "sell"}, p \in Prices, d \in {0, Day} :
          /\ nextTxId <= MaxLedgerTx
          /\ createTransaction(u, ty, 100 * MilliPerGram, p, d)
    \/ \E u \in AllUsers :
          /\ nextGoalId <= MaxUsers
          /\ now = StartTime
          /\ createGoal(u, 100 * MilliPerGram)
    \/ \E u \in AllUsers : calculateGoalsProgress(u)
    \/ \E c \in Calls, u \in AllUsers : zakatReadHoldings(c, u)
    \/ \E c \in Calls : zakatReadExisting(c)
    \/ \E c \in Calls : zakatFindFirst(c)
    \/ \E c \in Calls : zakatWrite(c)
    \/ now = StartTime /\ Tick

SpecIndependence == Init /\ [][NextIndependence]_vars

\* a ledger of weights that are not whole grams, and the zakat handler over it,
\* called when no other request is running
NextFractions ==
    \/ \E u \in Users, ty \in {"buy", "sell"}, w \in FractionWeights, p \in Prices,
          d \in TxDates :
          createTransaction(u, ty, w, p, d)
    \/ \E u \in Users : updateZakatStatus(u)

SpecFractions == Init /\ [][NextFractions]_vars

\* the goals, the handlers that write them and the handlers that report the
\* progress towards them
NextGoalCompletion ==
    \/ \E u \in Users, p \in Prices :
          /\ nextTxId <= MaxLedgerTx
          /\ createTransaction(u, "buy", 100 * MilliPerGram, p, now)
    \/ \E u \in Users, target \in Targets :
          /\ nextGoalId <= MaxGoals
          /\ createGoal(u, target)
    \/ \E id \in 1..MaxGoals,
          target \in {None} \cup {Some(x) : x \in Targets},
          completed \in {None, Some(TRUE), Some(FALSE)} :
          updateGoal([id |-> id, target_weight_grams |-> target,
                      is_completed |-> completed])
    \/ \E id \in 1..MaxGoals, u \in Users : deleteGoal(id, u)
    \/ \E id \in 1..MaxGoals, u \in Users : markGoalCompleted(id, u)
    \/ \E u \in Users : calculateGoalsProgress(u)
    \/ \E u \in Users : getDashboardData(u)

SpecGoalCompletion == Init /\ [][NextGoalCompletion]_vars

\* the ledger handlers, and the zakat handlers that write and read the record
\* kept of the ledger
NextLedgerAndZakat ==
    \/ \E u \in Users, ty \in {"buy", "sell"}, p \in Prices, d \in {0, now} :
          /\ nextTxId <= MaxLedgerTx
          /\ createTransaction(u, ty, 100 * MilliPerGram, p, d)
    \/ \E id \in 1..MaxLedgerTx,
          ty \in {None, Some("sell")},
          w \in {None, Some(15 * MilliPerGram)} :
          updateTransaction([id |-> id, type |-> ty, weight_grams |-> w,
                             price_per_gram |-> None, transaction_date |-> None])
    \/ \E id \in 1..MaxLedgerTx, u \in Users : deleteTransaction(id, u)
    \/ \E u \in Users : updateZakatStatus(u)
    \/ \E u \in Users, p \in ZakatPrices : calculateZakatAmount(u, p)
    \/ Tick

SpecLedgerAndZakat == Init /\ [][NextLedgerAndZakat]_vars

\* a ledger that rises above the nisab and falls below it, the record kept by
\* updateZakatStatus, and the reminder job: getUsersForZakatReminder reads the
\* records that are due, updateNextReminderDate advances one
NextReminderCycle ==
    \/ \E u \in Users, ty \in {"buy", "sell"}, w \in Weights, p \in Prices,
          d \in LongHeldDates :
          createTransaction(u, ty, w, p, d)
    \/ \E u \in Users : updateZakatStatus(u)
    \/ getUsersForZakatReminder
    \/ \E id \in 1..NumUsers, d \in ReminderDates : updateNextReminderDate(id, d)
    \/ Tick

SpecReminderCycle == Init /\ [][NextReminderCycle]_vars

----------------------------------------------------------------------------
(* getDashboardData step by step: every select is awaited, and the ledger
   handlers of other requests run between them. *)

\* calculateTotalGoldHoldings: await the sum of the buys
dashReadBought(c, userId) ==
    /\ calls[c].pc = "idle"
    /\ calls' = [calls EXCEPT ![c] =
          [pc |-> "sold", userId |-> userId,
           totalBought |-> SumOfType(goldTransactions, userId, "buy")]]
    /\ UNCHANGED <<goldPriceCache, now, goldTransactions, nextTxId, goldGoals, nextGoalId,
                   zakatReminders, nextZakatId, ret>>

\* calculateTotalGoldHoldings: await the sum of the sells; then totalGoldGrams
dashReadSold(c) ==
    /\ calls[c].pc = "sold"
    /\ calls' = [calls EXCEPT ![c] =
          [pc |-> "goals", userId |-> calls[c].userId,
           totalGoldGrams |->
               NetHoldings(calls[c].totalBought,
                           SumOfType(goldTransactions, calls[c].userId, "sell"))]]
    /\ UNCHANGED <<goldPriceCache, now, goldTransactions, nextTxId, goldGoals, nextGoalId,
                   zakatReminders, nextZakatId, ret>>

\* calculateGoalsProgress: await the goals of the user
dashReadGoals(c) ==
    /\ calls[c].pc = "goals"
    /\ calls' = [calls EXCEPT ![c] =
          [pc |-> "goalsBought", userId |-> calls[c].userId,
           totalGoldGrams |-> calls[c].totalGoldGrams,
           goals |-> {g \in goldGoals : g.user_id = calls[c].userId}]]
    /\ UNCHANGED <<goldPriceCache, now, goldTransactions, nextTxId, goldGoals, nextGoalId,
                   zakatReminders, nextZakatId, ret>>

\* calculateGoalsProgress: calculateTotalGoldHoldings again, the sum of the buys
dashGoalsReadBought(c) ==
    /\ calls[c].pc = "goalsBought"
    /\ calls' = [calls EXCEPT ![c] =
          [pc |-> "goalsSold", userId |-> calls[c].userId,
           totalGoldGrams |-> calls[c].totalGoldGrams,
           goals |-> calls[c].goals,
           totalBought |-> SumOfType(goldTransactions, calls[c].userId, "buy")]]
    /\ UNCHANGED <<goldPriceCache, now, goldTransactions, nextTxId, goldGoals, nextGoalId,
                   zakatReminders, nextZakatId, ret>>

\* calculateGoalsProgress: the sum of the sells, then goalsProgress; then
\* calculateZakatStatus up to its select, or to its end when the threshold is
\* not met
dashGoalsReadSold(c) ==
    /\ calls[c].pc = "goalsSold"
    /\ LET f == calls[c]
           currentHoldings ==
               NetHoldings(f.totalBought, SumOfType(goldTransactions, f.userId, "sell"))
           goalsProgress == GoalsProgressOver(f.goals, currentHoldings)
       IN calls' = [calls EXCEPT ![c] =
             IF MeetsThreshold(f.totalGoldGrams)
             THEN [pc |-> "first", userId |-> f.userId,
                   totalGoldGrams |-> f.totalGoldGrams,
                   goalsProgress |-> goalsProgress]
             ELSE [pc |-> "done", userId |-> f.userId,
                   result |-> DashboardData(f.totalGoldGrams, goalsProgress,
                                  DashboardZakatStatus(f.totalGoldGrams, None, now))]]
    /\ UNCHANGED <<goldPriceCache, now, goldTransactions, nextTxId, goldGoals, nextGoalId,
                   zakatReminders, nextZakatId, ret>>

\* calculateZakatStatus: await the first transaction; then the result
dashReadFirst(c) ==
    /\ calls[c].pc = "first"
    /\ LET f == calls[c]
       IN calls' = [calls EXCEPT ![c] =
             [pc |-> "done", userId |-> f.userId,
              result |-> DashboardData(f.totalGoldGrams, f.goalsProgress,
                             DashboardZakatStatus(f.totalGoldGrams,
                                 FirstTransaction(goldTransactions, f.userId), now))]]
    /\ UNCHANGED <<goldPriceCache, now, goldTransactions, nextTxId, goldGoals, nextGoalId,
                   zakatReminders, nextZakatId, ret>>

NextDashboardConcurrent ==
    \/ \E u \in Users, ty \in {"buy", "sell"} :
          /\ nextTxId <= MaxLedgerTx
          /\ createTransaction(u, ty, 100 * MilliPerGram, 6575, 0)
    \/ \E id \in 1..MaxLedgerTx, ty \in {"buy", "sell"} :
          updateTransaction([id |-> id, type |-> Some(ty), weight_grams |-> None,
                             price_per_gram |-> None, transaction_date |-> None])
    \/ \E id \in 1..MaxLedgerTx, u \in Users : deleteTransaction(id, u)
    \/ \E u \in Users : nextGoalId = 1 /\ createGoal(u, 100 * MilliPerGram)
    \/ \E c \in Calls, u \in Users : dashReadBought(c, u)
    \/ \E c \in Calls : dashReadSold(c)
    \/ \E c \in Calls : dashReadGoals(c)
    \/ \E c \in Calls : dashGoalsReadBought(c)
    \/ \E c \in Calls : dashGoalsReadSold(c)
    \/ \E c \in Calls : dashReadFirst(c)

SpecDashboardConcurrent == Init /\ [][NextDashboardConcurrent]_vars

----------------------------------------------------------------------------
(* What the claims are stated over *)

RECURSIVE NetWeight(_)
NetWeight(rows) ==
    IF rows = {} THEN 0
    ELSE LET t == CHOOSE t \in rows : TRUE
         IN (IF t.type = "buy" THEN t.weight_grams ELSE 0 - t.weight_grams)
            + NetWeight(rows \ {t})

\* max(0, sum of buy weights - sum of sell weights)
ExpectedHoldings(userId) ==
    LET net == NetWeight(UserTransactions(goldTransactions, userId))
    IN IF net > 0 THEN net ELSE 0

UpdateReturned == ret.op = "updateZakatStatus"

\* the running net total after the first k rows of s, not clamped
RECURSIVE RunningNet(_, _)
RunningNet(s, k) ==
    IF k = 0 THEN 0
    ELSE RunningNet(s, k - 1)
         + (IF s[k].type = "buy" THEN s[k].weight_grams ELSE 0 - s[k].weight_grams)

\* the positions of s at which the running total goes from below nisab to
\* nisab or more
Crossings(s) ==
    {k \in 1..Len(s) : RunningNet(s, k) >= Nisab /\ RunningNet(s, k - 1) < Nisab}

MinOf(S) == CHOOSE k \in S : \A j \in S : k <= j

MaxOf(S) == CHOOSE k \in S : \A j \in S : k >= j

\* s crosses nisab, dips below it and crosses it again, and ends at or above it
CrossesDipsRecrosses(s) ==
    /\ Cardinality(Crossings(s)) >= 2
    /\ RunningNet(s, Len(s)) >= Nisab

FirstCrossingDate(s) == s[MinOf(Crossings(s))].transaction_date

LastCrossingDate(s) == s[MaxOf(Crossings(s))].transaction_date

\* the user's transactions were recorded in the order of their dates
RecordedInDateOrder(userId) ==
    \A a, b \in UserTransactions(goldTransactions, userId) :
        a.id < b.id => a.transaction_date < b.transaction_date

EligibleSince(date, today) == (today - date) \div Day >= LUNAR_YEAR_DAYS

\* a history in the test 'should handle complex transaction history': buy 120 g
\* 400 days ago, sell 50 g 300 days ago, buy 30 g 200 days ago, sell 10 g 100
\* days ago, seen from today
ComplexHistory(today) ==
    {[id |-> 1, user_id |-> 1, type |-> "buy", weight_grams |-> 120 * MilliPerGram,
      transaction_date |-> today - 400 * Day],
     [id |-> 2, user_id |-> 1, type |-> "sell", weight_grams |-> 50 * MilliPerGram,
      transaction_date |-> today - 300 * Day],
     [id |-> 3, user_id |-> 1, type |-> "buy", weight_grams |-> 30 * MilliPerGram,
      transaction_date |-> today - 200 * Day],
     [id |-> 4, user_id |-> 1, type |-> "sell", weight_grams |-> 10 * MilliPerGram,
      transaction_date |-> today - 100 * Day]}

----------------------------------------------------------------------------
(* C1: for every ledger, calculateTotalGoldHoldings and calculateUserGoldHoldings
   (over the rows in any order the store returns them) both equal
   max(0, sum of buys - sum of sells): never negative, and 0 for an empty ledger. *)
C1_HoldingsAreClampedNet ==
    \A u \in Users :
        /\ calculateTotalGoldHoldings(goldTransactions, u) = ExpectedHoldings(u)
        /\ calculateUserGoldHoldings(goldTransactions, u) = ExpectedHoldings(u)
        /\ \A s \in RowOrders(goldTransactions, u) :
               UserGoldHoldingsOver(s) = ExpectedHoldings(u)
        /\ calculateUserGoldHoldings(goldTransactions, u) >= 0
        /\ UserTransactions(goldTransactions, u) = {}
               => calculateUserGoldHoldings(goldTransactions, u) = 0

\* sells exceed buys, and both calculators answer 0
C1_Witness ==
    \E u \in Users :
        /\ NetWeight(UserTransactions(goldTransactions, u)) < 0
        /\ calculateTotalGoldHoldings(goldTransactions, u) = 0
        /\ calculateUserGoldHoldings(goldTransactions, u) = 0

(* C2: for every goal and holdings, calculateGoalsProgress reports a percentage
   between 0 and 100, 100 when holdings exceed a positive target, and 0 for a
   target of 0 (no division by zero). *)
C2_ProgressWithinBounds ==
    ret.op = "calculateGoalsProgress" =>
        /\ \A g \in goldGoals :
               g.user_id = ret.user => \E e \in ret.value : e.id = g.id
        /\ \A e \in ret.value :
               /\ 0 <= e.current_progress_percentage
               /\ e.current_progress_percentage <= 100 * 100
               /\ e.target_weight_grams = 0 => e.current_progress_percentage = 0
               /\ (e.target_weight_grams > 0
                   /\ ExpectedHoldings(ret.user) > e.target_weight_grams)
                  => e.current_progress_percentage = 100 * 100

\* one goal with target 0 at 0 %, another overshot and capped at 100 %
C2_Witness ==
    /\ ret.op = "calculateGoalsProgress"
    /\ \E e \in ret.value :
          e.target_weight_grams = 0 /\ e.current_progress_percentage = 0
    /\ \E e \in ret.value :
          /\ e.target_weight_grams > 0
          /\ ExpectedHoldings(ret.user) > e.target_weight_grams
          /\ e.current_progress_percentage = 100 * 100

(* C3: right after updateZakatStatus(user) the returned record is the stored one,
   is_eligible holds iff holdings >= 85 g and floor((now - holding_start_date) / day)
   >= 354, both bounds inclusive, and next_reminder_date is null iff not eligible. *)
C3_EligibleIffNisabAndLunarYear ==
    UpdateReturned =>
        LET r == ret.value
            days == (r.updated_at - r.holding_start_date) \div Day
        IN /\ r \in zakatReminders
           /\ r.is_eligible <=>
                 (ExpectedHoldings(ret.user) >= Nisab /\ days >= LUNAR_YEAR_DAYS)
           /\ (r.next_reminder_date = None) <=> ~r.is_eligible

\* exactly 85 g held for exactly 354 days: eligible
C3_Witness ==
    /\ UpdateReturned
    /\ ret.value.is_eligible
    /\ ExpectedHoldings(ret.user) = Nisab
    /\ ret.value.updated_at - ret.value.holding_start_date = LUNAR_YEAR_DAYS * Day

(* C4: whenever updateZakatStatus runs with holdings below 85 g, the record it
   leaves is not eligible and has no reminder date, whatever the holding time and
   whatever the previous record held. *)
C4_BelowNisabClearsEligibility ==
    (UpdateReturned /\ ExpectedHoldings(ret.user) < Nisab) =>
        /\ ~ret.value.is_eligible
        /\ ret.value.next_reminder_date = None
        /\ \A r \in zakatReminders :
               r.user_id = ret.user => ~r.is_eligible /\ r.next_reminder_date = None

\* the previous record was eligible with a reminder date, the new one is cleared
C4_Witness ==
    /\ UpdateReturned
    /\ ExpectedHoldings(ret.user) < Nisab
    /\ Len(ret.existing) > 0
    /\ ret.existing[1].is_eligible
    /\ ret.existing[1].next_reminder_date # None
    /\ ~ret.value.is_eligible
    /\ ret.value.next_reminder_date = None

(* C5: whenever updateZakatStatus yields is_eligible, next_reminder_date is
   holding_start_date + 708 days; and a ledger that is a single buy of 100 g dated
   355 or more days ago yields is_eligible with holding_start_date that buy's date. *)
C5_SingleOldBuyIsEligible ==
    UpdateReturned =>
        LET r == ret.value
            mine == UserTransactions(goldTransactions, ret.user)
        IN /\ r.is_eligible =>
                 r.next_reminder_date = Some(r.holding_start_date + 708 * Day)
           /\ \A b \in mine :
                 (/\ mine = {b}
                  /\ b.type = "buy"
                  /\ b.weight_grams = 100 * MilliPerGram
                  /\ r.updated_at - b.transaction_date >= 355 * Day)
                 => (r.is_eligible /\ r.holding_start_date = b.transaction_date)

(* C6 as stated: with no prior record and a ledger that in date order crosses
   85 g, dips below and crosses again, updateZakatStatus sets holding_start_date
   to the date of the most recent crossing, and eligibility counts from it. *)
C6_AnchorsAtLastCrossing ==
    (/\ UpdateReturned
     /\ ret.existing = None
     /\ \A s \in DateOrders(goldTransactions, ret.user) : CrossesDipsRecrosses(s))
    => \E s \in DateOrders(goldTransactions, ret.user) :
          /\ ret.value.holding_start_date = LastCrossingDate(s)
          /\ ret.value.is_eligible <=>
                EligibleSince(LastCrossingDate(s), ret.value.updated_at)

(* C6 amended: with no prior record and such a ledger, updateZakatStatus sets
   holding_start_date to the date of the first crossing, and eligibility counts
   from it. *)
C6_AnchorsAtFirstCrossing ==
    (/\ UpdateReturned
     /\ ret.existing = None
     /\ \A s \in DateOrders(goldTransactions, ret.user) : CrossesDipsRecrosses(s))
    => \E s \in DateOrders(goldTransactions, ret.user) :
          /\ ret.value.holding_start_date = FirstCrossingDate(s)
          /\ ret.value.is_eligible <=>
                EligibleSince(FirstCrossingDate(s), ret.value.updated_at)

\* crossed a lunar year ago, dipped, crossed again less than a lunar year ago:
\* anchored at the first crossing and eligible
C6_Witness ==
    /\ UpdateReturned
    /\ ret.existing = None
    /\ \A s \in DateOrders(goldTransactions, ret.user) :
          /\ CrossesDipsRecrosses(s)
          /\ FirstCrossingDate(s) < LastCrossingDate(s)
          /\ ret.value.holding_start_date = FirstCrossingDate(s)
          /\ ~EligibleSince(LastCrossingDate(s), ret.value.updated_at)
    /\ ret.value.is_eligible

(* C7: a user has a record written while holdings were at or above 85 g; then a
   sell took holdings below 85 g, and the buy that has just been recorded took
   them back to 85 g or more (each transaction dated after the one before); the
   updateZakatStatus that follows sets holding_start_date to the date of that
   buy, at which holdings crossed 85 g again. *)
C7_ReanchorsAtRecrossing ==
    [][\A u \in Users :
          (/\ ret.op = "createTransaction"
           /\ ret.user = u
           /\ ret.value.type = "buy"
           /\ RecordedInDateOrder(u)
           /\ ExpectedHoldings(u) >= Nisab
           /\ ExpectedHoldings(u) - ret.value.weight_grams < Nisab
           /\ \E r \in zakatReminders : r.user_id = u /\ r.gold_weight_grams >= Nisab
           /\ updateZakatStatus(u))
          => ret'.value.holding_start_date = ret.value.transaction_date]_vars

(* C8: of two successive updateZakatStatus calls with holdings at or above 85 g
   at both, the second leaves holding_start_date as the first left it. *)
C8_StartDateKept ==
    (/\ UpdateReturned
     /\ Len(ret.existing) > 0
     /\ ret.existing[1].gold_weight_grams >= Nisab
     /\ ret.value.gold_weight_grams >= Nisab)
    => ret.value.holding_start_date = ret.existing[1].holding_start_date

\* a second call after further buys, at a later time
C8_Witness ==
    /\ UpdateReturned
    /\ Len(ret.existing) > 0
    /\ ret.existing[1].gold_weight_grams >= Nisab
    /\ ret.value.gold_weight_grams > ret.existing[1].gold_weight_grams
    /\ ret.value.updated_at > ret.existing[1].updated_at
    /\ ret.value.holding_start_date = ret.existing[1].holding_start_date

(* C9: handlers called one after the other leave at most one zakat record per
   user: the first updateZakatStatus inserts it, each later one updates that
   record (same id) with the holdings it computed, 0 and not eligible for a user
   with no transactions. *)
C9_OneRecordPerUser ==
    /\ \A u \in Users :
          Cardinality({r \in zakatReminders : r.user_id = u}) <= 1
    /\ \A r, q \in zakatReminders : r.id = q.id => r = q
    /\ UpdateReturned =>
          /\ ret.value \in zakatReminders
          /\ ret.value.user_id = ret.user
          /\ ret.value.gold_weight_grams = ExpectedHoldings(ret.user)
          /\ Len(ret.existing) > 0 => ret.value.id = ret.existing[1].id
          /\ UserTransactions(goldTransactions, ret.user) = {}
                => (ret.value.gold_weight_grams = 0 /\ ~ret.value.is_eligible)

\* a later call updated the record the first call inserted
C9_Witness ==
    /\ UpdateReturned
    /\ Len(ret.existing) > 0
    /\ ret.value.id = ret.existing[1].id
    /\ ret.value.gold_weight_grams # ret.existing[1].gold_weight_grams
    /\ Cardinality({r \in zakatReminders : r.user_id = ret.user}) = 1

(* C10: when two updateZakatStatus calls for one user overlap (both looked for
   the user's record before either wrote), the user ends with exactly one record
   and both calls return the same holding_start_date. *)
C10_OverlappingCallsLeaveOneRecord ==
    \A c1, c2 \in Calls :
        (/\ c1 # c2
         /\ calls[c1].pc = "done"
         /\ calls[c2].pc = "done"
         /\ calls[c1].userId = calls[c2].userId
         /\ calls[c1].existingReminder = None
         /\ calls[c2].existingReminder = None)
        => /\ Cardinality({r \in zakatReminders : r.user_id = calls[c1].userId}) = 1
           /\ calls[c1].result.holding_start_date = calls[c2].result.holding_start_date

(* C11: calculateZakatAmount(user, price) returns 0 when the user has no zakat
   record or the record is not eligible; otherwise the record's weight x price x
   0.025 to the nearest cent (100 g at 60.00 gives 150.00); and it changes no
   stored state. *)
C11_ZakatAmountOfEligibleRecord ==
    [][(ret'.op = "calculateZakatAmount" /\ ret' # ret) =>
          LET mine == {r \in zakatReminders : r.user_id = ret'.user}
          IN /\ zakatReminders' = zakatReminders
             /\ goldTransactions' = goldTransactions
             /\ goldGoals' = goldGoals
             /\ goldPriceCache' = goldPriceCache
             /\ (\A r \in mine : ~r.is_eligible) => ret'.value = 0
             /\ \A r \in mine :
                   (mine = {r} /\ r.is_eligible) =>
                      LET due == r.gold_weight_grams * ret'.price
                          unit == MilliPerGram * 40
                      IN /\ 2 * (ret'.value * unit - due) <= unit
                         /\ 2 * (due - ret'.value * unit) <= unit
                         /\ (r.gold_weight_grams = 100 * MilliPerGram
                             /\ ret'.price = 6000) => ret'.value = 15000]_vars

\* an eligible record of 100 g at 60.00 per gram: 150.00
C11_Witness ==
    /\ ret.op = "calculateZakatAmount"
    /\ ret.status # None
    /\ ret.status[1] \in zakatReminders
    /\ ret.status[1].is_eligible
    /\ ret.status[1].gold_weight_grams = 100 * MilliPerGram
    /\ ret.price = 6000
    /\ ret.value = 15000

(* C12: getUsersForZakatReminder returns exactly the zakat records that are
   eligible and whose next_reminder_date is not null and not after now: no
   ineligible record, no record with a null or future date, and every record
   that meets the condition. *)
C12_DueRemindersExactly ==
    ret.op = "getUsersForZakatReminder" =>
        /\ \A r \in ret.value :
              /\ r \in zakatReminders
              /\ r.is_eligible
              /\ r.next_reminder_date # None
              /\ r.next_reminder_date[1] <= ret.today
        /\ \A r \in zakatReminders :
              (/\ r.is_eligible
               /\ r.next_reminder_date # None
               /\ r.next_reminder_date[1] <= ret.today) => r \in ret.value

\* an eligible record that is due is returned; an ineligible record whose date
\* updateNextReminderDate set in the past is not
C12_Witness ==
    /\ ret.op = "getUsersForZakatReminder"
    /\ \E r \in ret.value : r \in zakatReminders
    /\ \E q \in zakatReminders :
          /\ ~q.is_eligible
          /\ q.next_reminder_date # None
          /\ q.next_reminder_date[1] <= ret.today
          /\ q \notin ret.value

(* C13: updateNextReminderDate(id, newDate) on an existing record sets its
   next_reminder_date to newDate and its updated_at to now, leaves its weight,
   holding_start_date and is_eligible and every other record as they were, and
   returns true; when no record has the id it returns false and changes no
   record. *)
C13_AdvancesOneReminder ==
    [][(ret'.op = "updateNextReminderDate" /\ ret' # ret) =>
          LET hit == {r \in zakatReminders : r.id = ret'.id}
          IN /\ ret'.value <=> hit # {}
             /\ hit = {} => zakatReminders' = zakatReminders
             /\ Cardinality(zakatReminders') = Cardinality(zakatReminders)
             /\ \A r \in zakatReminders : r.id # ret'.id => r \in zakatReminders'
             /\ \A r \in hit :
                   \E q \in zakatReminders' :
                      /\ q.id = r.id
                      /\ q.user_id = r.user_id
                      /\ q.next_reminder_date = Some(ret'.nextDate)
                      /\ q.updated_at = now
                      /\ q.updated_at >= r.updated_at
                      /\ q.gold_weight_grams = r.gold_weight_grams
                      /\ q.holding_start_date = r.holding_start_date
                      /\ q.is_eligible = r.is_eligible
                      /\ q.created_at = r.created_at]_vars

\* a record's date was set some time after the record was created, beside the
\* record of another user
C13_Witness ==
    /\ ret.op = "updateNextReminderDate"
    /\ ret.value
    /\ \E r \in zakatReminders :
          /\ r.id = ret.id
          /\ r.next_reminder_date = Some(ret.nextDate)
          /\ r.updated_at = ret.today
          /\ r.updated_at > r.created_at
          /\ \E q \in zakatReminders : q.id # r.id /\ q.updated_at < r.updated_at

(* C14: updateGoldPriceCache(q) returns true and replaces the slot by q with
   expiry now + 1 hour; getCachedGoldPrice returns the quote in the slot while
   now <= its expires_at and leaves the slot alone, and returns null once now is
   past it, emptying the slot; clearGoldPriceCache empties the slot, and an empty
   slot gives null; the passing of time alone does not change the slot. *)
C14_CachedWithinTtl ==
    [][/\ (ret'.op = "updateGoldPriceCache" /\ ret' # ret) =>
             /\ ret'.value = TRUE
             /\ goldPriceCache' = Some([price |-> ret'.goldPrice,
                                        expires_at |-> now + CACHE_DURATION_MS])
       /\ (ret'.op = "getCachedGoldPrice" /\ ret' # ret) =>
             IF goldPriceCache # None /\ now <= goldPriceCache[1].expires_at
             THEN /\ ret'.value = Some(goldPriceCache[1].price)
                  /\ goldPriceCache' = goldPriceCache
             ELSE /\ ret'.value = None
                  /\ goldPriceCache' = None
       /\ (ret'.op = "clearGoldPriceCache" /\ ret' # ret) => goldPriceCache' = None
       /\ ret' = ret => goldPriceCache' = goldPriceCache]_vars

\* a get after the hour has passed: null, and the expired entry is gone
C14_Witness ==
    /\ ret.op = "getCachedGoldPrice"
    /\ ret.entry # None
    /\ ret.today = ret.entry[1].expires_at + 1
    /\ ret.value = None
    /\ goldPriceCache = None

(* C15: when getGoldPriceWithRefresh has returned a quote and is called again
   while the cached entry is still valid, nothing but time having passed in
   between, the second call returns the same quote (price and timestamp) and
   does not call fetchCurrentGoldPrice. *)
C15_SecondCallServedFromCache ==
    [][(/\ ret.op = "getGoldPriceWithRefresh"
        /\ ret.threw = None
        /\ ret'.op = "getGoldPriceWithRefresh"
        /\ ret' # ret
        /\ goldPriceCache # None
        /\ now <= goldPriceCache[1].expires_at)
       => /\ ret'.threw = None
          /\ ret'.value = ret.value
          /\ ret'.fetches = 0]_vars

\* a call some time after the one that fetched, at the very end of the hour,
\* served from the cache
C15_Witness ==
    /\ ret.op = "getGoldPriceWithRefresh"
    /\ ret.fetches = 0
    /\ ret.value # None
    /\ goldPriceCache # None
    /\ ret.value[1] = goldPriceCache[1].price
    /\ ret.today = goldPriceCache[1].expires_at
    /\ ret.value[1].timestamp < ret.today

(* C17: when fetchCurrentGoldPrice fails in a getGoldPriceWithRefresh that found
   nothing valid in the cache, the call throws after that one call of the feed,
   returns no quote and leaves the slot empty; a getCachedGoldPrice that follows
   returns null. *)
C17_FeedFailurePropagates ==
    [][/\ (ret'.op = "getGoldPriceWithRefresh" /\ ret' # ret /\ ret'.threw # None) =>
             /\ ret'.value = None
             /\ ret'.fetches = 1
             /\ goldPriceCache' = None
       /\ (/\ ret.op = "getGoldPriceWithRefresh"
           /\ ret.threw # None
           /\ ret'.op = "getCachedGoldPrice") => ret'.value = None]_vars

\* the feed failed on an entry that had expired: the call threw and the slot is
\* empty
C17_Witness ==
    /\ ret.op = "getGoldPriceWithRefresh"
    /\ ret.threw # None
    /\ ret.value = None
    /\ ret.fetches = 1
    /\ ret.today > StartTime + CACHE_DURATION_MS
    /\ goldPriceCache = None

(* C16: when two getGoldPriceWithRefresh calls overlap in one cache miss (each
   found nothing valid in the slot before the other stored its quote) and both
   return, they return the same quote, and it is the quote left in the cache. *)
C16_OverlappingMissesAgree ==
    \A c1, c2 \in Calls :
        (/\ c1 # c2
         /\ calls[c1].pc = "done" /\ calls[c1].missed /\ calls[c1].threw = None
         /\ calls[c2].pc = "done" /\ calls[c2].missed /\ calls[c2].threw = None
         /\ calls[c1].lookedAt <= calls[c2].storedAt
         /\ calls[c2].lookedAt <= calls[c1].storedAt)
        => /\ calls[c1].value = calls[c2].value
           /\ goldPriceCache # None
           /\ Some(goldPriceCache[1].price) = calls[c1].value

(* C18: after any createTransaction and updateTransaction calls every stored
   transaction has total_price = weight_grams x price_per_gram rounded half-up to
   the cent (10.5 x 65.75 gives 690.38); an update of the weight or of the price
   stores the total of the new value and the other stored value, and an update of
   neither leaves total_price as it was. *)
C18_TotalPriceHalfUp ==
    /\ \A t \in goldTransactions :
          t.total_price =
             (t.weight_grams * t.price_per_gram + MilliPerGram \div 2) \div MilliPerGram
    /\ (ret.op = "updateTransaction" /\ ret.value # None) =>
          /\ ret.value[1] \in goldTransactions
          /\ (ret.input.weight_grams = None /\ ret.input.price_per_gram = None)
                => ret.value[1].total_price = ret.existing[1].total_price

(* C19: every result of getDashboardData(user) is that of one ledger state, also
   when the user's transactions are created, updated or deleted while the call
   runs: each goal's progress is that of total_gold_grams, and
   zakat_status.current_weight_grams and, times the price, estimated_total_value
   are total_gold_grams. *)
C19_DashboardOfOneLedgerState ==
    \A c \in Calls :
        calls[c].pc = "done" =>
            LET r == calls[c].result
            IN /\ \A e \in r.goals_progress :
                     e.current_progress_percentage =
                        ProgressPercentage(r.total_gold_grams, e.target_weight_grams)
               /\ r.zakat_status.current_weight_grams = r.total_gold_grams
               /\ r.estimated_total_value = r.total_gold_grams * r.current_gold_price

(* C20: for every ledger and time, the is_eligible of the zakat_status that
   getDashboardData returns is the is_eligible that updateZakatStatus, called
   for the same user without a prior record on the same ledger at the same time,
   derives. *)
C20_DashboardEligibilityIsTheEngines ==
    [][(/\ ret.op = "getDashboardData"
        /\ ret.today = now
        /\ ret'.op = "updateZakatStatus"
        /\ ret'.user = ret.user
        /\ ret'.existing = None)
       => ret'.value.is_eligible = ret.value.zakat_status.is_eligible]_vars

(* C21: deleteTransaction, getTransactionById, deleteGoal, getGoalById and
   markGoalCompleted act only on a record with the given id that the given user
   owns: when there is none they return false or null and every stored record
   stays as it was, and in any case no other record changes. *)
C21_ActsOnlyOnOwnedRecord ==
    [][(/\ ret'.op # ret.op \/ ret' # ret
        /\ ret'.op \in {"deleteTransaction", "getTransactionById", "deleteGoal",
                        "getGoalById", "markGoalCompleted"})
       => LET onTransactions == ret'.op \in {"deleteTransaction", "getTransactionById"}
              deletes == ret'.op \in {"deleteTransaction", "deleteGoal"}
              ownedTransactions == {t \in goldTransactions :
                                       onTransactions /\ t.id = ret'.id /\ t.user_id = ret'.user}
              ownedGoals == {g \in goldGoals :
                                ~onTransactions /\ g.id = ret'.id /\ g.user_id = ret'.user}
          IN /\ (ownedTransactions = {} /\ ownedGoals = {}) =>
                   /\ IF deletes THEN ret'.value = FALSE ELSE ret'.value = None
                   /\ goldTransactions' = goldTransactions
                   /\ goldGoals' = goldGoals
                   /\ zakatReminders' = zakatReminders
             /\ \A t \in goldTransactions \ ownedTransactions : t \in goldTransactions'
             /\ \A g \in goldGoals \ ownedGoals : g \in goldGoals']_vars

\* markGoalCompleted was given the goal of another user: null, and the goal is
\* still there and still incomplete
C21_Witness ==
    /\ ret.op = "markGoalCompleted"
    /\ ret.value = None
    /\ \E g \in goldGoals : g.id = ret.id /\ g.user_id # ret.user /\ ~g.is_completed

(* C22: users are independent.  What updateZakatStatus and calculateGoalsProgress
   compute for a user is computed from that user's own transactions, goals and
   zakat record, whatever the other users have; and no step of updateZakatStatus
   for a user creates, changes or removes the zakat record of another user, in
   any interleaving of the calls. *)
C22_UsersAreIndependent ==
    [][/\ \A c \in Calls :
             LET u == calls'[c].userId
                 ownTransactions == {t \in goldTransactions : t.user_id = u}
                 ownReminders == {r \in zakatReminders : r.user_id = u}
             IN /\ (calls[c].pc = "idle" /\ calls'[c].pc = "existing") =>
                      calls'[c].currentHoldings = Max(0, NetWeight(ownTransactions))
                /\ (calls[c].pc = "existing" /\ calls'[c].pc # "existing") =>
                      \/ calls'[c].existingReminder = None /\ ownReminders = {}
                      \/ /\ calls'[c].existingReminder # None
                         /\ calls'[c].existingReminder[1] \in ownReminders
                /\ (calls[c].pc = "first" /\ calls'[c].pc = "write") =>
                      calls'[c].values.holding_start_date \in
                          {t.transaction_date : t \in ownTransactions} \cup {now}
                /\ (calls[c].pc = "write" /\ calls'[c].pc = "done") =>
                      /\ calls'[c].result.user_id = u
                      /\ {r \in zakatReminders' : r.user_id # u}
                            = {r \in zakatReminders : r.user_id # u}
       /\ (ret'.op = "calculateGoalsProgress" /\ (ret.op # ret'.op \/ ret' # ret)) =>
             ret'.value = GoalsProgressOver(
                              {g \in goldGoals : g.user_id = ret'.user},
                              Max(0, NetWeight({t \in goldTransactions :
                                                   t.user_id = ret'.user})))]_vars

\* a call for one user has written that user's record between the steps of a
\* call for another user, who has transactions and a goal of their own
C22_Witness ==
    \E c1, c2 \in Calls :
        /\ calls[c1].pc = "done"
        /\ calls[c2].pc = "write"
        /\ calls[c1].userId # calls[c2].userId
        /\ calls[c1].result.gold_weight_grams >= Nisab
        /\ calls[c2].values.gold_weight_grams = 0
        /\ \E t \in goldTransactions : t.user_id = calls[c2].userId
        /\ \E g \in goldGoals : g.user_id = calls[c2].userId

(* C23: when updateZakatStatus runs for a user with holdings of 85 g or more and
   no prior record, holding_start_date is the date of the earliest transaction,
   in ascending order of transaction_date, at which the running net total (buys
   added, sells subtracted, not clamped) is 85 g or more; and for buy 120 g (400
   days ago), sell 50 g (300), buy 30 g (200), sell 10 g (100) the holdings are
   90 g, the start is the first buy, and the user is eligible. *)
C23_StartsAtFirstCrossing ==
    /\ (UpdateReturned /\ ret.existing = None /\ ExpectedHoldings(ret.user) >= Nisab) =>
          \E s \in DateOrders(goldTransactions, ret.user) :
              /\ Crossings(s) # {}
              /\ ret.value.holding_start_date = FirstCrossingDate(s)
              /\ \A k \in 1..Len(s) :
                    RunningNet(s, k) >= Nisab =>
                        ret.value.holding_start_date <= s[k].transaction_date
    /\ LET history == ComplexHistory(now)
           exceedsNisab == calculateUserGoldHoldings(history, 1) >= Nisab
       IN /\ calculateUserGoldHoldings(history, 1) = 90 * MilliPerGram
          /\ findFirstNisabExceedDate(history, 1) = {Some(now - 400 * Day)}
          /\ \A firstExceedDate \in findFirstNisabExceedDate(history, 1) :
                IsEligible(exceedsNisab,
                           HoldingStartDate(exceedsNisab, None, firstExceedDate, now), now)

\* a sell, a buy and a buy, in the order of their dates: the running total is
\* below zero, then zero, then 100 g, and the record written for the user, who had
\* none, starts at the second buy
C23_Witness ==
    /\ UpdateReturned
    /\ ret.existing = None
    /\ ExpectedHoldings(ret.user) >= Nisab
    /\ \A s \in DateOrders(goldTransactions, ret.user) :
          /\ Len(s) = 3
          /\ s[1].type = "sell"
          /\ RunningNet(s, 1) < 0
          /\ Crossings(s) = {3}
          /\ s[2].transaction_date < s[3].transaction_date
          /\ ret.value.holding_start_date = s[3].transaction_date

(* C24: in an execution in which the ledger is not modified during a call of
   updateZakatStatus, when the holdings are 85 g or more and the user has no
   record, the replay in date order finds a transaction at which the running
   total is 85 g or more: holding_start_date does not fall back to the current
   time. *)
C24_ReplayFindsTheCrossing ==
    (UpdateReturned /\ ret.existing = None /\ ret.exceedsNisab) => ~ret.fellBack

(* C25: the holdings computed do not depend on the order of the transactions:
   for every ledger, the rows in any order (whatever their dates) give the same
   number, in calculateUserGoldHoldings, and the number calculateTotalGoldHoldings
   gives is that of the net sum floored at 0 once. *)
C25_HoldingsOrderIndependent ==
    \A u \in Users :
        /\ calculateTotalGoldHoldings(goldTransactions, u) = ExpectedHoldings(u)
        /\ \A s1, s2 \in RowOrders(goldTransactions, u) :
              /\ UserGoldHoldingsOver(s1) = UserGoldHoldingsOver(s2)
              /\ DoubleSame(UserGoldHoldingsNumber(s1), UserGoldHoldingsNumber(s2))

(* C26: calculateGoalsProgress changes no stored goal, and is_completed of each
   entry it returns is the stored flag of the goal, also when the progress is
   100 %; the stored is_completed of a goal changes only in markGoalCompleted
   and updateGoal. *)
C26_CompletionIsExplicit ==
    [][/\ ret'.op = "calculateGoalsProgress" =>
             /\ goldGoals' = goldGoals
             /\ \A e \in ret'.value :
                   \E g \in goldGoals :
                       g.id = e.id /\ g.user_id = ret'.user
                       /\ e.is_completed = g.is_completed
       /\ \A g \in goldGoals :
             \A h \in goldGoals' :
                 (h.id = g.id /\ h.is_completed # g.is_completed) =>
                     ret'.op \in {"markGoalCompleted", "updateGoal"}
      ]_<<goldGoals, ret.op,
          IF ret.op = "calculateGoalsProgress" THEN ret.value ELSE {}>>

\* the holdings have reached the target of a goal that nobody marked completed:
\* reported at 100 % and not completed, next to a goal marked completed at 0 %
C26_Witness ==
    /\ ret.op = "calculateGoalsProgress"
    /\ \E e \in ret.value :
          /\ e.current_progress_percentage = 100 * 100
          /\ ~e.is_completed
          /\ \E g \in goldGoals : g.id = e.id /\ ~g.is_completed
    /\ \E e \in ret.value :
          /\ e.current_progress_percentage = 0
          /\ e.is_completed

(* C27: after every successful createTransaction, updateTransaction or
   deleteTransaction the zakat record of the user is up to date with the ledger
   (gold_weight_grams is the holdings, and is_eligible only with holdings of
   85 g or more) without a call of updateZakatStatus, so calculateZakatAmount
   gives no amount for holdings the ledger does not contain. *)
C27_LedgerChangeUpdatesZakatRecord ==
    /\ \A u \in Users :
          (\/ ret.op = "createTransaction" /\ ret.user = u
           \/ ret.op = "deleteTransaction" /\ ret.value /\ ret.user = u
           \/ ret.op = "updateTransaction" /\ ret.threw = None
                                           /\ ret.value[1].user_id = u)
          => \A r \in zakatReminders :
                r.user_id = u =>
                    /\ r.gold_weight_grams = ExpectedHoldings(u)
                    /\ r.is_eligible => ExpectedHoldings(u) >= Nisab
    /\ (ret.op = "calculateZakatAmount" /\ ret.value > 0) =>
          ExpectedHoldings(ret.user) >= Nisab

(* C28: in every state reached by calls of updateZakatStatus and
   updateNextReminderDate that do not overlap, whatever the ledger does in
   between, a record whose is_eligible is true has gold_weight_grams of at least
   85 g and a next_reminder_date that is not null. *)
C28_EligibleRecordIsWellFormed ==
    \A r \in zakatReminders :
       r.is_eligible =>
          /\ r.gold_weight_grams >= Nisab
          /\ r.next_reminder_date # None

\* an eligible record of 85 g whose date updateNextReminderDate has replaced,
\* after the ledger fell below the nisab
C28_Witness ==
    /\ ret.op = "updateNextReminderDate"
    /\ ret.value
    /\ \E r \in zakatReminders :
          /\ r.id = ret.id
          /\ r.is_eligible
          /\ r.next_reminder_date = Some(ret.nextDate)
          /\ r.gold_weight_grams = 85 * MilliPerGram
          /\ ExpectedHoldings(r.user_id) < Nisab

(* C29: once updateZakatStatus has produced a record with is_eligible true, a
   later updateZakatStatus of that user that finds the ledger's holdings still
   at 85 g or more again produces is_eligible true, with the holding_start_date
   the record had and the next_reminder_date updateZakatStatus gave it, two
   lunar years after that holding_start_date. *)
C29_EligibilityIsStable ==
    (/\ UpdateReturned
     /\ ret.existing # None
     /\ ret.existing[1].is_eligible
     /\ ExpectedHoldings(ret.user) >= Nisab) =>
        /\ ret.value.is_eligible
        /\ ret.value.holding_start_date = ret.existing[1].holding_start_date
        /\ ret.value.next_reminder_date =
              Some(ret.existing[1].holding_start_date + 2 * LUNAR_YEAR_DAYS * Day)

(* C30: once updateNextReminderDate has moved an eligible record's
   next_reminder_date to a date d that is still to come, getUsersForZakatReminder
   does not return that record before d, also when updateZakatStatus has run
   for that user in between: a getUsersForZakatReminder that follows an
   updateZakatStatus which found the record eligible, with a date to come that
   is not the one updateZakatStatus writes, does not return the record. *)
C30_AdvancedReminderStaysQuiet ==
    [][(/\ ret'.op = "getUsersForZakatReminder"
        /\ ret.op = "updateZakatStatus"
        /\ ret.existing # None
        /\ ret.existing[1].is_eligible
        /\ ret.existing[1].next_reminder_date # None
        /\ ret.existing[1].next_reminder_date[1] > now
        /\ ret.existing[1].next_reminder_date #
              NextReminderDate(TRUE, ret.existing[1].holding_start_date)) =>
          \A r \in ret'.value : r.id # ret.existing[1].id]_<<ret.op, now, zakatReminders>>

====
